---- MODULE Spec2Model ----
(***************************************************************************)
(* Model of the x402 payment gateway (X402PayService): the pending-payment *)
(* store, challenge issuance, the asynchronous verifyPayment handler with  *)
(* its suspension points on the facilitator, settlement, and the expiry    *)
(* sweep; of the HTTP endpoints in front of it (router validation, request *)
(* and process handlers, the session map, the hourly cleanup timer); and of *)
(* the smart-wallet executor (SmartWalletService): submission of a user    *)
(* operation to the provider and the wait for its outcome.                 *)
(***************************************************************************)
EXTENDS Integers, Sequences, FiniteSets, TLC

\* ---------------------------------------------------------------- bounds
MaxIssued == 2      \* challenges issued in one run of SpecIssue
MaxRedeemable == 1  \* challenges issued in one run of Spec
MaxCalls == 2       \* verifyPayment invocations in one run
MaxTicks == 1       \* advances of the wall clock in one run of SpecIssue
MaxOps == 1         \* wallet operations called in one run of SpecWallet
MaxIntDigits == 2   \* digits before the point of an entered amount
MaxFracDigits == 2  \* digits after the point of an entered amount
MaxToolCalls == 2   \* tool invocations by the agent in one run of SpecTools
MaxMessages == 2    \* inbound messages delivered in one run of SpecLoop

\* ------------------------------------------------------ program constants
ExpirySeconds == 3600
MsPerSecond == 1000
DefaultRecipient == "0x742d35Cc6635C0532925a3b8D716C4C3e4d4Cc62"

X402_PAYMENT_SCENARIOS ==
  [AI_PROJECT_CREATION |->
     [amount |-> "1000000", currency |-> "USDC",
      description |-> "AI-Assisted Project Creation"],
   APPLICATION_SIGNAL_FEE |->
     [amount |-> "500000", currency |-> "USDC",
      description |-> "Project Application Signal Fee"],
   MILESTONE_APPROVAL_FEE |->
     [amount |-> "2000000", currency |-> "USDC",
      description |-> "Milestone Approval Service Fee"],
   DISPUTE_BOND |->
     [amount |-> "10000000", currency |-> "USDC",
      description |-> "Dispute Resolution Bond"]]

ScenarioKeys == DOMAIN X402_PAYMENT_SCENARIOS

\* ------------------------------------------------------------ environment
\* Steps by which the wall clock (Date.now(), milliseconds) advances.
TickDeltas == {3600600, 3601200}
\* uuidv4() values are modelled as 1, 2, ...; 0 is an id no challenge ever gets.
UnknownId == 0
\* Ids a caller can name: the ids handed out so far, and one that never was.
CallerIds(log) == {UnknownId} \cup (1..Len(log))
Calls == 1..MaxCalls

VARIABLES
  now,              \* Date.now(), in milliseconds
  ticks,            \* number of clock advances so far
  pendingPayments,  \* X402PayService.pendingPayments : id -> X402PaymentResponse
  issued,           \* log of generatePaymentRequest calls, in order
  calls,            \* the verifyPayment invocations
  sweeps            \* log of the sweeps that removed something

VARIABLES
  paymentSessions,  \* x402-endpoints paymentSessions : id -> session
  reply,            \* the latest response of a synchronous route
  http,             \* the response of the process handler running call c
  intervalRuns      \* runs of the hourly setInterval callback so far

endpointVars == <<paymentSessions, reply, http, intervalRuns>>

VARIABLES
  smartAccount,     \* SmartWalletService.smartAccount is set
  ops               \* the wallet operations called

walletVars == <<smartAccount, ops>>

VARIABLES
  storage,          \* FileStorageProvider: userId -> saved SmartWalletState
  walletCall        \* the getOrCreateWalletState / refreshWalletState call

stateVars == <<storage, walletCall>>

VARIABLES
  conversion        \* an amount on its way through parseUnits and formatUnits

unitVars == <<conversion>>

VARIABLES
  toolCalls         \* the invocations of the agent's tools

toolVars == <<toolCalls>>

VARIABLES
  stream,           \* streamAllMessages(): the messages delivered so far
  loop,             \* the program started and its for-await loop
  handlings,        \* the handling of the n-th message of the stream
  sent              \* log of the conversation.send calls that resolved

loopVars == <<stream, loop, handlings, sent>>

\* everything outside the payment gateway, its endpoints and the executor
hostVars == <<stateVars, unitVars, toolVars, loopVars>>

vars ==
  <<now, ticks, pendingPayments, issued, calls, sweeps, endpointVars,
    walletVars, hostVars>>

\* ----------------------------------------------------------------- helpers
\* Math.floor(ms / 1000)
UnixSeconds(ms) == ms \div MsPerSecond

\* the value a Map lookup yields for a missing key
NoPayment ==
  [paymentId |-> UnknownId, amount |-> "", currency |-> "", recipient |-> "",
   deadline |-> 0, nonce |-> 0]

NoResult ==
  [paymentId |-> UnknownId, transactionHash |-> "", verified |-> FALSE,
   amount |-> "", timestamp |-> 0]

NoRequest ==
  [paymentId |-> UnknownId, transactionHash |-> "", expectedAmount |-> "",
   expectedRecipient |-> "", expectedCurrency |-> ""]

\* this.pendingPayments.get(paymentId)
MapGet(store, paymentId) ==
  IF paymentId \in DOMAIN store THEN store[paymentId] ELSE NoPayment

\* this.pendingPayments.set(paymentId, paymentRequest)
MapSet(store, paymentId, value) ==
  [k \in (DOMAIN store) \cup {paymentId} |->
     IF k = paymentId THEN value ELSE store[k]]

\* this.pendingPayments.delete(paymentId)
MapDelete(store, paymentId) ==
  [k \in (DOMAIN store) \ {paymentId} |-> store[k]]

IdleCall ==
  [pc |-> "idle", paymentId |-> UnknownId, transactionHash |-> "",
   calledAt |-> 0, found |-> FALSE, pendingPayment |-> NoPayment,
   sent |-> FALSE, request |-> NoRequest,
   answer |-> "none", settle |-> "none",
   verification |-> NoResult, result |-> NoResult, before |-> {}]

\* no response sent
NoReply == [route |-> "none", status |-> 0]

Ops == 1..MaxOps

\* SmartWalletUserOperation; "" stands for an absent field
NoOperation ==
  [userOpHash |-> "", transactionHash |-> "", status |-> "none", error |-> ""]

\* what the provider's waitForUserOperation has answered: nothing yet
NoReport == [settled |-> "pending"]

IdleOp ==
  [pc |-> "idle", method |-> "none", args |-> <<>>,
   submitted |-> 0, waited |-> 0, sent |-> <<>>, send |-> "none",
   userOpHash |-> "", report |-> NoReport,
   result |-> NoOperation, thrown |-> ""]

\* the users whose wallet state is kept
Users == {"alice"}

\* getWalletData answers null: no file, or a file that cannot be read
NoState ==
  [address |-> "", isInitialized |-> FALSE, nativeBalance |-> "",
   tokenBalances |-> <<>>, transactions |-> <<>>, lastUpdated |-> 0 - 1]

\* what the chain reads of a refresh have answered: nothing yet
NoReads == [native |-> "none", token |-> "none", history |-> "none",
            save |-> "none"]

IdleWalletCall ==
  [pc |-> "idle", entry |-> "none", userId |-> "", calledAt |-> 0,
   existingData |-> NoState, state |-> NoState, reads |-> NoReads,
   chainReads |-> 0, writes |-> 0, settledAt |-> 0,
   result |-> NoState, thrown |-> ""]

\* a decimal text as the pattern of parseUnits splits it: sign, the digits
\* before the point and the digits after it
NoText == [negative |-> FALSE, integer |-> <<>>, fraction |-> <<>>]

NoConversion ==
  [stage |-> "none", amount |-> NoText, decimals |-> 0, raw |-> 0,
   formatted |-> NoText]

ToolCalls == 1..MaxToolCalls

\* what a tool function has returned: nothing yet
NoToolResult == [success |-> FALSE, transactionHash |-> "", message |-> ""]

IdleToolCall ==
  [pc |-> "idle", program |-> "none", name |-> "none", input |-> <<>>,
   requester |-> "", client |-> "", submitted |-> FALSE,
   userOpHash |-> "", result |-> NoToolResult, thrown |-> ""]

Messages == 1..MaxMessages

\* no program has called main() yet
NotStarted == [entry |-> "none", pulled |-> 0]

\* the handling of a message the loop has not pulled yet
IdleHandling ==
  [pc |-> "idle", initialised |-> FALSE, invoked |-> FALSE,
   conversation |-> FALSE, response |-> <<>>, failure |-> ""]

Init ==
  /\ now = 0
  /\ ticks = 0
  /\ pendingPayments = <<>>
  /\ issued = <<>>
  /\ calls = [c \in Calls |-> IdleCall]
  /\ sweeps = {}
  /\ paymentSessions = <<>>
  /\ reply = NoReply
  /\ http = [c \in Calls |-> NoReply]
  /\ intervalRuns = 0
  /\ smartAccount = FALSE
  /\ ops = [o \in Ops |-> IdleOp]
  /\ storage = [u \in Users |-> NoState]
  /\ walletCall = IdleWalletCall
  /\ conversion = NoConversion
  /\ toolCalls = [t \in ToolCalls |-> IdleToolCall]
  /\ stream = <<>>
  /\ loop = NotStarted
  /\ handlings = [n \in Messages |-> IdleHandling]
  /\ sent = <<>>

\* ------------------------------------------------------------------ clock
Tick(d) ==
  /\ now' = now + d
  /\ ticks' = ticks + 1
  /\ UNCHANGED <<pendingPayments, issued, calls, sweeps>>

\* ------------------------------------------------- generatePaymentRequest
\* uuidv4(): a value no earlier call returned
uuidv4(log) == Len(log) + 1

\* randomBytes(32).toString("hex"): a fresh value as well
randomNonce(log) == Len(log) + 1

\* Math.floor(Date.now() / 1000) + 3600
DeadlineBadUnits(nowMs) == (nowMs + ExpirySeconds) \div MsPerSecond
Deadline(nowMs) == UnixSeconds(nowMs) + ExpirySeconds

PaymentRequest(scenario, paymentId, nonce, nowMs) ==
  [paymentId |-> paymentId,
   amount |-> X402_PAYMENT_SCENARIOS[scenario].amount,
   currency |-> X402_PAYMENT_SCENARIOS[scenario].currency,
   recipient |-> DefaultRecipient,
   deadline |-> Deadline(nowMs),
   nonce |-> nonce]

generatePaymentRequest(scenario) ==
  /\ LET paymentId == uuidv4(issued)
         paymentRequest ==
           PaymentRequest(scenario, paymentId, randomNonce(issued), now)
     IN /\ pendingPayments' = MapSet(pendingPayments, paymentId, paymentRequest)
        /\ issued' = Append(issued, [scenario |-> scenario, at |-> now,
                                     payment |-> paymentRequest])
  /\ UNCHANGED <<now, ticks, calls, sweeps>>

\* ------------------------------------------------- cleanupExpiredPayments
\* payment.deadline < now
ExpiredInclusive(payment, nowSec) == payment.deadline <= nowSec
Expired(payment, nowSec) == payment.deadline < nowSec

\* the for-of loop over pendingPayments.entries(), deleting as it goes
SweepStore(store, nowSec) ==
  [k \in {i \in DOMAIN store : ~Expired(store[i], nowSec)} |-> store[k]]

cleanupExpiredPayments ==
  /\ pendingPayments' = SweepStore(pendingPayments, UnixSeconds(now))
  /\ LET removed == (DOMAIN pendingPayments) \ (DOMAIN pendingPayments')
     IN sweeps' = IF removed = {} THEN sweeps
                  ELSE sweeps \cup {[at |-> now, removed |-> removed,
                                     kept |-> DOMAIN pendingPayments']}
  /\ UNCHANGED <<now, ticks, issued, calls>>

\* ------------------------------------------------------------ verifyPayment
\* what the facilitator may do with POST /verify
FetchOutcomes == {"threw", "notok", "ok"}
\* what the facilitator may do with POST /settle
SettleOutcomes == {"threw", "notok", "ok"}

\* verificationResult.verified || false
BodyVerified(body) ==
  IF "verified" \in DOMAIN body THEN body.verified ELSE FALSE

\* verificationResult.amount, "" when the field is absent
BodyAmount(body) ==
  IF "amount" \in DOMAIN body THEN body.amount ELSE ""

\* verificationResult.amount || pendingPayment.amount
AmountOr(body, pendingPayment) ==
  IF BodyAmount(body) # "" THEN BodyAmount(body) ELSE pendingPayment.amount

\* if (!pendingPayment)
IsMissingNever(pendingPayment) == FALSE
IsMissing(pendingPayment) == pendingPayment = NoPayment

\* the catch block of verifyPayment: log, return an unverified result
Rethrown(call, nowMs) == [call EXCEPT !.pc = "thrown"]
Caught(call, nowMs) ==
  [call EXCEPT
     !.pc = "returned",
     !.result = [paymentId |-> call.paymentId,
                 transactionHash |-> call.transactionHash,
                 verified |-> FALSE,
                 amount |-> "0",
                 timestamp |-> UnixSeconds(nowMs)]]

\* if (verification.verified)
ShouldRedeemAlways(verification) == TRUE
ShouldRedeem(verification) == verification.verified

\* this.pendingPayments.delete(paymentId) on the verified branch
RedeemAll(store, paymentId) == <<>>
RedeemKeep(store, paymentId) == store
Redeem(store, paymentId) == MapDelete(store, paymentId)

\* settlePayment: does a failure of POST /settle escape its try/catch?
SettleEscapesOnThrow(outcome) == outcome = "threw"
SettleEscapes(outcome) == FALSE

Finished(call) == call.pc \in {"returned", "thrown"}

\* lines 167-173: the JSON body of POST /verify
VerifyRequestUnbound(paymentId, transactionHash, pendingPayment) ==
  [paymentId |-> paymentId,
   transactionHash |-> transactionHash,
   expectedAmount |-> "0",
   expectedRecipient |-> pendingPayment.recipient,
   expectedCurrency |-> pendingPayment.currency]
VerifyRequest(paymentId, transactionHash, pendingPayment) ==
  [paymentId |-> paymentId,
   transactionHash |-> transactionHash,
   expectedAmount |-> pendingPayment.amount,
   expectedRecipient |-> pendingPayment.recipient,
   expectedCurrency |-> pendingPayment.currency]

\* lines 155-174: look the challenge up, send POST /verify
verifyPaymentStart(c, paymentId, transactionHash) ==
  /\ calls[c].pc = "idle"
  /\ c > 1 => calls[c - 1].pc # "idle"
  /\ LET pendingPayment == MapGet(pendingPayments, paymentId)
         started == [calls[c] EXCEPT
                       !.paymentId = paymentId,
                       !.transactionHash = transactionHash,
                       !.calledAt = now,
                       !.before = {d \in Calls : Finished(calls[d])}]
     IN IF IsMissing(pendingPayment)
        THEN calls' = [calls EXCEPT ![c] = Caught(started, now)]
        ELSE calls' = [calls EXCEPT ![c] =
               [started EXCEPT
                  !.pc = "awaitFetch",
                  !.found = TRUE,
                  !.pendingPayment = pendingPayment,
                  !.sent = TRUE,
                  !.request =
                    VerifyRequest(paymentId, transactionHash,
                                  pendingPayment)]]
  /\ UNCHANGED <<now, ticks, pendingPayments, issued, sweeps>>

\* lines 162-178: the fetch settles; a rejection or a non-2xx status throws
verifyFetchResolve(c, outcome) ==
  /\ calls[c].pc = "awaitFetch"
  /\ IF outcome = "ok"
     THEN calls' = [calls EXCEPT ![c].pc = "awaitJson"]
     ELSE calls' = [calls EXCEPT ![c] =
                      Caught([calls[c] EXCEPT !.answer = outcome], now)]
  /\ UNCHANGED <<now, ticks, pendingPayments, issued, sweeps>>

\* lines 180-181: response.json() rejects on an unparsable body
verifyJsonFail(c) ==
  /\ calls[c].pc = "awaitJson"
  /\ calls' = [calls EXCEPT ![c] =
                 Caught([calls[c] EXCEPT !.answer = "badjson"], now)]
  /\ UNCHANGED <<now, ticks, pendingPayments, issued, sweeps>>

\* lines 180-212: the body arrives; redeem and call settle, or report failure
verifyJsonResolve(c, body) ==
  /\ calls[c].pc = "awaitJson"
  /\ LET call == calls[c]
         verification ==
           [paymentId |-> call.paymentId,
            transactionHash |-> call.transactionHash,
            verified |-> BodyVerified(body),
            amount |-> AmountOr(body, call.pendingPayment),
            timestamp |-> UnixSeconds(now)]
         answered == [call EXCEPT
                        !.answer = IF BodyVerified(body) THEN "true" ELSE "false",
                        !.verification = verification]
     IN IF ShouldRedeem(verification)
        THEN /\ pendingPayments' = Redeem(pendingPayments, call.paymentId)
             /\ calls' = [calls EXCEPT ![c] =
                            [answered EXCEPT !.pc = "awaitSettle",
                                             !.settle = "sent"]]
        ELSE /\ pendingPayments' = pendingPayments
             /\ calls' = [calls EXCEPT ![c] =
                            [answered EXCEPT !.pc = "returned",
                                             !.result = verification]]
  /\ UNCHANGED <<now, ticks, issued, sweeps>>

\* lines 233-269 and 203-212: POST /settle settles; verifyPayment returns
settlePaymentResolve(c, outcome) ==
  /\ calls[c].pc = "awaitSettle"
  /\ LET settled == [calls[c] EXCEPT !.settle = outcome]
     IN IF SettleEscapes(outcome)
        THEN calls' = [calls EXCEPT ![c] = Caught(settled, now)]
        ELSE calls' = [calls EXCEPT ![c] =
                         [settled EXCEPT !.pc = "returned",
                                         !.result = settled.verification]]
  /\ UNCHANGED <<now, ticks, pendingPayments, issued, sweeps>>

\* ----------------------------------------------------------- HTTP endpoints
\* the age past which the cleanup timer drops a session, and its period
SessionMaxAgeMs == 3600000
CleanupPeriodMs == 3600000
\* the empty string as a payment id (ids are modelled as numbers)
EmptyId == -1

Routes == {"ai-project", "application", "milestone", "dispute"}

\* the scenario each request handler passes to create402Response
RouteScenario(route) ==
  CASE route = "ai-project" -> "AI_PROJECT_CREATION"
    [] route = "application" -> "APPLICATION_SIGNAL_FEE"
    [] route = "milestone" -> "MILESTONE_APPROVAL_FEE"
    [] route = "dispute" -> "DISPUTE_BOND"

\* a request body is a JSON object: a function from the fields it has
EmptyBody == [f \in {} |-> ""]

\* the falsy value of a field's type: 0 for a number, "" for a string
FalsyValue(field) ==
  CASE field = "milestoneId" -> 0
    [] field = "paymentId" -> EmptyId
    [] OTHER -> ""

\* !req.body[field]
Falsy(body, field) ==
  \/ field \notin DOMAIN body
  \/ body[field] = FalsyValue(field)

\* req.body[field] === undefined
Undefined(body, field) == field \notin DOMAIN body

\* the router's validateRequiredFields(fields): fields.filter(...)
MissingFields(fields, body) == SelectSeq(fields, LAMBDA f : Falsy(body, f))

\* the field lists the router passes to validateRequiredFields
RequiredFieldsButLast(route) ==
  CASE route = "ai-project" -> <<>>
    [] route = "application" -> <<"userId">>
    [] route = "milestone" -> <<"userId", "projectAddress">>
    [] route = "dispute" -> <<"userId", "projectAddress", "milestoneId">>
RequiredFields(route) ==
  CASE route = "ai-project" -> <<"userId">>
    [] route = "application" -> <<"userId", "projectAddress">>
    [] route = "milestone" -> <<"userId", "projectAddress", "milestoneId">>
    [] route = "dispute" ->
         <<"userId", "projectAddress", "milestoneId", "disputeReason">>

ProcessFields == <<"paymentId", "transactionHash">>

\* the request handlers' own checks of the body
HandlerRejects(route, body) ==
  CASE route = "ai-project" -> Falsy(body, "userId")
    [] route = "application" ->
         Falsy(body, "userId") \/ Falsy(body, "projectAddress")
    [] route = "milestone" ->
         \/ Falsy(body, "userId") \/ Falsy(body, "projectAddress")
         \/ Undefined(body, "milestoneId")
    [] route = "dispute" ->
         \/ Falsy(body, "userId") \/ Falsy(body, "projectAddress")
         \/ Undefined(body, "milestoneId") \/ Falsy(body, "disputeReason")

HandlerError(route) ==
  CASE route = "ai-project" -> "User ID required"
    [] route = "application" -> "User ID and project address required"
    [] route = "milestone" ->
         "User ID, project address, and milestone ID required"
    [] route = "dispute" ->
         "User ID, project address, milestone ID, and dispute reason required"

\* the body fields each request handler keeps as session metadata
MetadataFields(route) ==
  CASE route = "ai-project" -> {"projectType", "requirements"}
    [] route = "application" -> {"projectAddress", "applicationMessage"}
    [] route = "milestone" -> {"projectAddress", "milestoneId"}
    [] route = "dispute" -> {"projectAddress", "milestoneId", "disputeReason"}

Session(route, body, nowMs) ==
  [userId |-> body.userId,
   scenario |-> RouteScenario(route),
   metadata |-> [f \in MetadataFields(route) \cap DOMAIN body |-> body[f]],
   timestamp |-> nowMs]

\* create402Response: the body of the 402 answer
Payment402(paymentRequest, scenario) ==
  [id |-> paymentRequest.paymentId,
   amount |-> paymentRequest.amount,
   currency |-> paymentRequest.currency,
   recipient |-> paymentRequest.recipient,
   deadline |-> paymentRequest.deadline,
   description |-> X402_PAYMENT_SCENARIOS[scenario].description]

\* POST /<route>/request: router validation, then the request handler
requestPayment(route, body) ==
  LET missing == MissingFields(RequiredFields(route), body)
      answered == [route |-> route, step |-> "request", body |-> body]
  IN /\ IF missing # <<>>
        THEN /\ reply' = answered @@
                  [status |-> 400, error |-> "Missing required fields",
                   fields |-> missing]
             /\ UNCHANGED <<now, ticks, pendingPayments, issued, calls,
                            sweeps, paymentSessions>>
        ELSE IF HandlerRejects(route, body)
        THEN /\ reply' = answered @@
                  [status |-> 400, error |-> HandlerError(route),
                   fields |-> <<>>]
             /\ UNCHANGED <<now, ticks, pendingPayments, issued, calls,
                            sweeps, paymentSessions>>
        ELSE /\ generatePaymentRequest(RouteScenario(route))
             /\ LET paymentRequest == issued'[Len(issued')].payment
                IN /\ paymentSessions' =
                        MapSet(paymentSessions, paymentRequest.paymentId,
                               Session(route, body, now))
                   /\ reply' = answered @@
                        [status |-> 402,
                         payment |-> Payment402(paymentRequest,
                                                RouteScenario(route))]
     /\ UNCHANGED <<http, intervalRuns>>

\* isPaymentPending(paymentId)
isPaymentPending(store, paymentId) == paymentId \in DOMAIN store

\* the JSON body of GET /payment/:paymentId
PaymentStatus(store, sessions, paymentId) ==
  IF isPaymentPending(store, paymentId)
  THEN [status |-> "pending",
        payment |-> MapGet(store, paymentId),
        session |-> IF paymentId \in DOMAIN sessions
                    THEN [scenario |-> sessions[paymentId].scenario,
                          userId |-> sessions[paymentId].userId,
                          timestamp |-> sessions[paymentId].timestamp]
                    ELSE [scenario |-> "null"]]
  ELSE [status |-> "not_found",
        message |-> "Payment not found or already processed"]

getPaymentStatus(paymentId) ==
  /\ reply' = [route |-> "payment", step |-> "status",
               body |-> [paymentId |-> paymentId], status |-> 200,
               json |-> PaymentStatus(pendingPayments, paymentSessions,
                                      paymentId)]
  /\ UNCHANGED <<now, ticks, pendingPayments, issued, calls, sweeps,
                 paymentSessions, http, intervalRuns>>

\* now - session.timestamp > 3600000
SessionExpiredNever(session, nowMs) == FALSE
SessionExpired(session, nowMs) == nowMs - session.timestamp > SessionMaxAgeMs

\* the setInterval callback: sweep the gateway, then the sessions; a timer
\* fires no earlier than its period after the previous one was due
cleanupInterval ==
  /\ now >= (intervalRuns + 1) * CleanupPeriodMs
  /\ cleanupExpiredPayments
  /\ paymentSessions' =
       [k \in {i \in DOMAIN paymentSessions :
                 ~SessionExpired(paymentSessions[i], now)}
          |-> paymentSessions[k]]
  /\ intervalRuns' = intervalRuns + 1
  /\ UNCHANGED <<reply, http>>

\* the message of each process handler's success answer
ProcessMessage(route) ==
  CASE route = "ai-project" -> "AI project creation completed"
    [] route = "application" -> "Project application submitted successfully"
    [] route = "milestone" ->
         "Milestone approved and SBTs minted successfully"
    [] route = "dispute" ->
         "Dispute created successfully and assigned to arbiter"

\* what a process handler does once its verifyPayment call is over: the
\* answer it sends and the session map it leaves
ProcessOutcomeSessionFirst(answered, call, sessions) ==
  IF call.paymentId \notin DOMAIN sessions
  THEN [reply |-> answered @@
                    [status |-> 404, error |-> "Payment session not found"],
        sessions |-> sessions]
  ELSE IF call.pc = "thrown"
  THEN [reply |-> answered @@
                    [status |-> 500, error |-> "Internal server error"],
        sessions |-> sessions]
  ELSE IF ~call.result.verified
  THEN [reply |-> answered @@
                    [status |-> 400, error |-> "Payment verification failed"],
        sessions |-> sessions]
  ELSE [reply |-> answered @@
                    [status |-> 200, success |-> TRUE,
                     message |-> ProcessMessage(answered.route),
                     paymentVerification |-> call.result],
        sessions |-> MapDelete(sessions, call.paymentId)]
ProcessOutcome(answered, call, sessions) ==
  IF call.pc = "thrown"
  THEN [reply |-> answered @@
                    [status |-> 500, error |-> "Internal server error"],
        sessions |-> sessions]
  ELSE IF ~call.result.verified
  THEN [reply |-> answered @@
                    [status |-> 400, error |-> "Payment verification failed"],
        sessions |-> sessions]
  ELSE IF call.paymentId \notin DOMAIN sessions
  THEN [reply |-> answered @@
                    [status |-> 404, error |-> "Payment session not found"],
        sessions |-> sessions]
  ELSE [reply |-> answered @@
                    [status |-> 200, success |-> TRUE,
                     message |-> ProcessMessage(answered.route),
                     paymentVerification |-> call.result],
        sessions |-> MapDelete(sessions, call.paymentId)]

\* the handler of call c resumes in the step in which verifyPayment ends
HandlerResume(c, answered) ==
  IF Finished(calls'[c])
  THEN LET outcome == ProcessOutcome(answered, calls'[c], paymentSessions)
       IN /\ http' = [http EXCEPT ![c] = outcome.reply]
          /\ paymentSessions' = outcome.sessions
  ELSE /\ http' = [http EXCEPT ![c] = answered @@ [status |-> 0]]
       /\ paymentSessions' = paymentSessions

\* the process handlers' own check of the body: only processAIProjectCreation
\* has one
ProcessHandlerRejects(route, body) ==
  /\ route = "ai-project"
  /\ Falsy(body, "paymentId") \/ Falsy(body, "transactionHash")

\* the request a pending process handler is answering
Answering(c) ==
  [route |-> http[c].route, step |-> "process", body |-> http[c].body,
   storedAtCall |-> http[c].storedAtCall]

\* POST /<route>/process: router validation, then the handler up to its
\* await of verifyPayment
processPayment(c, route, body) ==
  LET missing == MissingFields(ProcessFields, body)
  IN IF missing # <<>>
     THEN /\ reply' = [route |-> route, step |-> "process", body |-> body,
                       status |-> 400, error |-> "Missing required fields",
                       fields |-> missing]
          /\ UNCHANGED <<now, ticks, pendingPayments, issued, calls, sweeps,
                         paymentSessions, http, intervalRuns>>
     ELSE IF ProcessHandlerRejects(route, body)
     THEN /\ reply' = [route |-> route, step |-> "process", body |-> body,
                       status |-> 400,
                       error |-> "Payment ID and transaction hash required",
                       fields |-> <<>>]
          /\ UNCHANGED <<now, ticks, pendingPayments, issued, calls, sweeps,
                         paymentSessions, http, intervalRuns>>
     ELSE /\ verifyPaymentStart(c, body.paymentId, body.transactionHash)
          /\ HandlerResume(c, [route |-> route, step |-> "process",
                               body |-> body,
                               storedAtCall |->
                                 body.paymentId \in DOMAIN paymentSessions])
          /\ UNCHANGED <<reply, intervalRuns>>

processFetchResolve(c, outcome) ==
  /\ verifyFetchResolve(c, outcome)
  /\ HandlerResume(c, Answering(c))
  /\ UNCHANGED <<reply, intervalRuns>>

processJsonFail(c) ==
  /\ verifyJsonFail(c)
  /\ HandlerResume(c, Answering(c))
  /\ UNCHANGED <<reply, intervalRuns>>

processJsonResolve(c, body) ==
  /\ verifyJsonResolve(c, body)
  /\ HandlerResume(c, Answering(c))
  /\ UNCHANGED <<reply, intervalRuns>>

processSettleResolve(c, outcome) ==
  /\ settlePaymentResolve(c, outcome)
  /\ HandlerResume(c, Answering(c))
  /\ UNCHANGED <<reply, intervalRuns>>

\* ------------------------------------------------------ SmartWalletService
USDC_ADDRESS == "0x833589fCD6eDb6E08f4c7C32D4f71b54bda02913"
\* addresses a caller may pass: well-formed ones, and text that is none
WellFormedAddresses == {USDC_ADDRESS, DefaultRecipient}
MalformedAddresses == {"not-an-address"}
Addresses == {DefaultRecipient} \cup MalformedAddresses
IsAddress(a) == a \in WellFormedAddresses

\* parseUnits(value, 6) on the amount texts of the model; a text outside
\* this table is no decimal number and makes parseUnits throw
ParsedUnits ==
  ("1.5" :> 1500000) @@ ("100" :> 100000000) @@ ("0" :> 0)
    @@ ("-2" :> (0 - 2000000))
CanParseUnits(value) == value \in DOMAIN ParsedUnits
parseUnits(value) == ParsedUnits[value]

\* createProject evaluates milestonePayments.map(parseUnits) before it calls
\* callContract: a text that is no number makes createProject itself reject
ArgumentsThrow(method, args) ==
  /\ method = "createProject"
  /\ \E i \in 1..Len(args.milestonePayments) :
       ~CanParseUnits(args.milestonePayments[i])

\* inside the try block, before sendUserOperation is invoked: parseUnits in
\* transferTokens, and encodeFunctionData, which rejects an argument that is
\* no address and a negative uint256
EncodingThrows(method, args) ==
  CASE method = "sendNativeTokens" -> FALSE
    [] method = "transferTokens" ->
         \/ ~CanParseUnits(args.amount)
         \/ ~IsAddress(args.to)
         \/ parseUnits(args.amount) < 0
    [] method = "callContract" -> ~args.encodable
    [] method = "createProject" ->
         \/ ~IsAddress(args.freelancer)
         \/ \E i \in 1..Len(args.milestonePayments) :
              parseUnits(args.milestonePayments[i]) < 0
    [] method = "approveMilestone" -> args.milestoneIndex < 0

\* the call handed to sendUserOperation
UserOperationCall(method, args) ==
  CASE method = "sendNativeTokens" ->
         [to |-> args.to, value |-> args.amount, data |-> <<>>]
    [] method = "transferTokens" ->
         [to |-> args.tokenAddress, value |-> 0,
          data |-> <<"transfer", args.to, parseUnits(args.amount)>>]
    [] method = "callContract" ->
         [to |-> args.contractAddress, value |-> 0,
          data |-> <<args.functionName>>]
    [] method = "createProject" ->
         [to |-> args.contractAddress, value |-> 0,
          data |-> <<"createProject", args.client, args.freelancer,
                     [i \in 1..Len(args.milestonePayments) |->
                        parseUnits(args.milestonePayments[i])]>>]
    [] method = "approveMilestone" ->
         [to |-> args.projectAddress, value |-> 0,
          data |-> <<"approveMilestone", args.milestoneIndex>>]

\* the catch blocks of the three senders
SubmissionFailed(error) ==
  [userOpHash |-> "", transactionHash |-> "", status |-> "failed",
   error |-> error]

\* initialize(): smartAccount is assigned once getOrCreateSmartAccount has
\* resolved, before AgentKit.from; a failure at any point is rethrown
InitializeOutcomes == {"ok", "providerFailed", "agentKitFailed"}

initialize(outcome) ==
  /\ smartAccount' = (smartAccount \/ outcome # "providerFailed")
  /\ UNCHANGED <<now, ticks, pendingPayments, issued, calls, sweeps,
                 endpointVars, ops, hostVars>>

\* a sender up to its await of sendUserOperation
Submit(o, method, args) ==
  /\ ops[o].pc = "idle"
  /\ o > 1 => ops[o - 1].pc # "idle"
  /\ LET called == [ops[o] EXCEPT !.method = method, !.args = args]
     IN ops' = [ops EXCEPT ![o] =
          IF ArgumentsThrow(method, args)
          THEN [called EXCEPT !.pc = "thrown",
                              !.thrown = "InvalidDecimalNumberError"]
          ELSE IF ~smartAccount
          THEN [called EXCEPT !.pc = "thrown",
                              !.thrown = "Smart wallet not initialized"]
          ELSE IF EncodingThrows(method, args)
          THEN [called EXCEPT !.pc = "returned",
                              !.result = SubmissionFailed("encoding")]
          ELSE [called EXCEPT !.pc = "awaitSend",
                              !.submitted = @ + 1,
                              !.sent = UserOperationCall(method, args)]]
  /\ UNCHANGED <<now, ticks, pendingPayments, issued, calls, sweeps,
                 endpointVars, smartAccount, hostVars>>

sendNativeTokens(o, to, amount) ==
  /\ Submit(o, "sendNativeTokens", [to |-> to, amount |-> amount])

transferTokens(o, params) ==
  /\ Submit(o, "transferTokens", params)

callContract(o, params) ==
  /\ Submit(o, "callContract", params)

createProject(o, contractAddress, client, freelancer, milestonePayments) ==
  /\ Submit(o, "createProject",
            [contractAddress |-> contractAddress, client |-> client,
             freelancer |-> freelancer,
             milestonePayments |-> milestonePayments])

approveMilestone(o, projectAddress, milestoneIndex) ==
  /\ Submit(o, "approveMilestone",
            [projectAddress |-> projectAddress,
             milestoneIndex |-> milestoneIndex])

\* what the provider may do with sendUserOperation
SendOutcomes ==
  {[ok |-> TRUE, userOpHash |-> "0xop"], [ok |-> FALSE, error |-> "rejected"]}

\* the catch block of a sender when sendUserOperation rejects
SendRejectedRetry(op, error) ==
  IF op.submitted < 2
  THEN [op EXCEPT !.pc = "awaitSend", !.submitted = @ + 1]
  ELSE [op EXCEPT !.pc = "returned", !.result = SubmissionFailed(error)]
SendRejected(op, error) ==
  [op EXCEPT !.pc = "returned", !.result = SubmissionFailed(error)]

\* sendUserOperation settles; on success the sender calls
\* waitForUserOperation, which runs up to its await of the provider
sendUserOperationSettles(o, outcome) ==
  /\ ops[o].pc = "awaitSend"
  /\ ops' = [ops EXCEPT ![o] =
       IF outcome.ok
       THEN [@ EXCEPT !.pc = "awaitWait",
                      !.send = "resolved",
                      !.userOpHash = outcome.userOpHash,
                      !.waited = @ + 1]
       ELSE SendRejected([@ EXCEPT !.send = "rejected"], outcome.error)]
  /\ UNCHANGED <<now, ticks, pendingPayments, issued, calls, sweeps,
                 endpointVars, smartAccount, hostVars>>

\* what the provider's waitForUserOperation may settle with
WaitOutcomes ==
  {[settled |-> "resolved", status |-> "complete",
    transactionHash |-> "0xtx"],
   [settled |-> "resolved", status |-> "failed"],
   [settled |-> "resolved", status |-> "pending"],
   [settled |-> "rejected", error |-> "provider error"]}

\* the provider's promise settles (a step of the provider, not of the code)
providerWaitSettles(o, outcome) ==
  /\ ops[o].pc = "awaitWait"
  /\ ops[o].report = NoReport
  /\ ops' = [ops EXCEPT ![o].report = outcome]
  /\ UNCHANGED <<now, ticks, pendingPayments, issued, calls, sweeps,
                 endpointVars, smartAccount, hostVars>>

\* lines 559-572: the result built from the provider's answer
WaitResultAsReported(userOpHash, userOperation) ==
  [userOpHash |-> userOpHash,
   transactionHash |->
     IF "transactionHash" \in DOMAIN userOperation
     THEN userOperation.transactionHash ELSE "",
   status |-> userOperation.status,
   error |-> ""]
WaitResult(userOpHash, userOperation) ==
  IF userOperation.status = "complete"
  THEN [userOpHash |-> userOpHash,
        transactionHash |-> userOperation.transactionHash,
        status |-> userOperation.status,
        error |-> ""]
  ELSE [userOpHash |-> userOpHash, transactionHash |-> "",
        status |-> "failed", error |-> "Transaction failed"]

\* lines 573-580: the catch block of waitForUserOperation
WaitRethrown(op, error) == [op EXCEPT !.pc = "thrown", !.thrown = error]
WaitCaught(op, error) ==
  [op EXCEPT !.pc = "returned",
             !.result = [userOpHash |-> op.userOpHash,
                         transactionHash |-> "",
                         status |-> "failed", error |-> error]]

\* waitForUserOperation resumes once the provider's promise has settled, and
\* the sender returns its result
waitForUserOperationResume(o) ==
  /\ ops[o].pc = "awaitWait"
  /\ ops[o].report # NoReport
  /\ ops' = [ops EXCEPT ![o] =
       IF ops[o].report.settled = "rejected"
       THEN WaitCaught(@, ops[o].report.error)
       ELSE [@ EXCEPT !.pc = "returned",
                      !.result = WaitResult(@.userOpHash, ops[o].report)]]
  /\ UNCHANGED <<now, ticks, pendingPayments, issued, calls, sweeps,
                 endpointVars, smartAccount, hostVars>>

\* ------------------------------------------------------------ specification
\* The gateway object used on its own: nothing of the endpoints moves.
\* ----------------------------------------- wallet state (SmartWalletService)
\* 5 * 60 * 1000
FreshnessMs == 300000

\* what the chain answers
ChainNativeBalance == "5000"
ChainTokenBalance ==
  [token |-> USDC_ADDRESS, symbol |-> "USDC", balance |-> "1500000",
   decimals |-> 6, formattedBalance |-> "1.5"]
ChainTransaction ==
  [hash |-> "0xtx", from |-> DefaultRecipient, to |-> USDC_ADDRESS,
   status |-> "complete"]

\* existingData.lastUpdated < Date.now() - 5 * 60 * 1000
StaleInclusive(existingData, nowMs) ==
  existingData.lastUpdated <= nowMs - FreshnessMs
Stale(existingData, nowMs) == existingData.lastUpdated < nowMs - FreshnessMs

\* the state a refresh starts from when nothing is stored
InitialState(nowMs) ==
  [address |-> "0xsmart", isInitialized |-> TRUE, nativeBalance |-> "0",
   tokenBalances |-> <<>>, transactions |-> <<>>, lastUpdated |-> nowMs]

\* how the sub-fetches of one refresh may end: getBalance, the three
\* readContract calls of getTokenBalance, the history fetch (which may also
\* answer without a transactions field), and saveWalletData
ReadOutcomes ==
  [native : {"ok", "failed"},
   token : {"ok", "balanceFailed", "decimalsFailed", "symbolFailed"},
   history : {"ok", "failed", "missing"},
   save : {"ok", "failed"}]

\* getTokenBalance: the entry, or null from its catch block
getTokenBalance(reads) ==
  IF reads.token = "ok" THEN <<ChainTokenBalance>> ELSE <<>>

\* getTransactionHistory: the transformed list, or [] from its guard and
\* its catch block
getTransactionHistory(reads) ==
  IF reads.history = "ok" THEN <<ChainTransaction>> ELSE <<>>

\* the faults that leave the try block of refreshWalletState: a rejected
\* getBalance; getTokenBalance and getTransactionHistory catch their own
RefreshAbortsOnAnyFault(reads) ==
  reads.native # "ok" \/ reads.token # "ok" \/ reads.history # "ok"
RefreshAborts(reads) == reads.native # "ok"

\* the state at the end of the try block, before it is saved
Refreshed(state, reads, nowMs) ==
  [state EXCEPT !.nativeBalance = ChainNativeBalance,
                !.tokenBalances = getTokenBalance(reads),
                !.transactions = getTransactionHistory(reads),
                !.lastUpdated = nowMs]

NoWalletCallRunning == walletCall.pc \in {"idle", "returned", "thrown"}

\* a call that found the service not initialized
NotInitialized(entry, userId) ==
  [IdleWalletCall EXCEPT !.pc = "thrown", !.entry = entry,
                         !.userId = userId, !.calledAt = now,
                         !.thrown = "Smart wallet not initialized"]

\* refreshWalletState up to its first chain read
RefreshStarted(entry, userId, existingData, state) ==
  [IdleWalletCall EXCEPT !.pc = "awaitReads", !.entry = entry,
                         !.userId = userId, !.calledAt = now,
                         !.existingData = existingData, !.state = state]

getOrCreateWalletState(userId) ==
  /\ NoWalletCallRunning
  /\ LET existingData == storage[userId]
     IN walletCall' =
          IF ~smartAccount
          THEN NotInitialized("getOrCreateWalletState", userId)
          ELSE IF existingData # NoState /\ ~Stale(existingData, now)
          THEN [IdleWalletCall EXCEPT
                  !.pc = "returned", !.entry = "getOrCreateWalletState",
                  !.userId = userId, !.calledAt = now,
                  !.existingData = existingData, !.state = existingData,
                  !.result = existingData]
          ELSE RefreshStarted("getOrCreateWalletState", userId, existingData,
                              IF existingData # NoState THEN existingData
                              ELSE InitialState(now))
  /\ UNCHANGED <<now, ticks, pendingPayments, issued, calls, sweeps,
                 endpointVars, walletVars, storage, unitVars, toolVars,
                 loopVars>>

refreshWalletState(userId) ==
  /\ NoWalletCallRunning
  /\ LET existingData == storage[userId]
     IN walletCall' =
          IF ~smartAccount
          THEN NotInitialized("refreshWalletState", userId)
          ELSE RefreshStarted("refreshWalletState", userId, existingData,
                              IF existingData # NoState THEN existingData
                              ELSE InitialState(now))
  /\ UNCHANGED <<now, ticks, pendingPayments, issued, calls, sweeps,
                 endpointVars, walletVars, storage, unitVars, toolVars,
                 loopVars>>

\* the chain reads settle and the try block runs to its end or to its catch
refreshReadsSettle(reads) ==
  /\ walletCall.pc = "awaitReads"
  /\ LET settled == [walletCall EXCEPT !.pc = "returned", !.reads = reads,
                                       !.chainReads = @ + 1,
                                       !.settledAt = now]
         state == Refreshed(walletCall.state, reads, now)
     IN IF RefreshAborts(reads)
        THEN /\ walletCall' = [settled EXCEPT !.result = walletCall.state]
             /\ UNCHANGED storage
        ELSE /\ walletCall' = [settled EXCEPT !.state = state,
                                              !.writes = @ + 1,
                                              !.result = state]
             /\ storage' = IF reads.save = "ok"
                           THEN [storage EXCEPT ![walletCall.userId] = state]
                           ELSE storage
  /\ UNCHANGED <<now, ticks, pendingPayments, issued, calls, sweeps,
                 endpointVars, walletVars, unitVars, toolVars, loopVars>>

\* -------------------------------------------------- parseUnits, formatUnits
RECURSIVE Pow10(_)
Pow10(n) == IF n = 0 THEN 1 ELSE 10 * Pow10(n - 1)

\* BigInt(digits); BigInt("") is 0n
RECURSIVE DigitsValue(_)
DigitsValue(digits) ==
  IF digits = <<>> THEN 0
  ELSE 10 * DigitsValue(SubSeq(digits, 1, Len(digits) - 1))
         + digits[Len(digits)]

\* value.toString() of a non-negative bigint
RECURSIVE ToDigits(_)
ToDigits(n) ==
  IF n < 10 THEN <<n>> ELSE Append(ToDigits(n \div 10), n % 10)

\* fraction.replace(/(0+)$/, "")
RECURSIVE TrimTrailingZeros(_)
TrimTrailingZeros(digits) ==
  IF digits = <<>> \/ digits[Len(digits)] # 0 THEN digits
  ELSE TrimTrailingZeros(SubSeq(digits, 1, Len(digits) - 1))

\* fraction.padEnd(decimals, "0"), on the number the digits stand for
PadEndNone(fraction, decimals) == DigitsValue(fraction)
PadEnd(fraction, decimals) ==
  DigitsValue(fraction) * Pow10(decimals - Len(fraction))

\* display.padStart(decimals, "0")
RECURSIVE PadStart(_, _)
PadStart(digits, length) ==
  IF Len(digits) >= length THEN digits
  ELSE PadStart(<<0>> \o digits, length)

\* Math.round(Number(`${unit}.${right}`)) - unit, right without trailing
\* zeros: 1 when the first dropped digit is 5 or more
RoundUp(dropped) == IF dropped # <<>> /\ dropped[1] >= 5 THEN 1 ELSE 0

\* viem parseUnits(value, decimals) as transferTokens calls it
parseUnitsText(value, decimals) ==
  LET fraction == TrimTrailingZeros(value.fraction)
      integer == DigitsValue(value.integer)
      magnitude ==
        IF decimals = 0 THEN integer + RoundUp(fraction)
        ELSE IF Len(fraction) > decimals
        THEN integer * Pow10(decimals)
               + DigitsValue(SubSeq(fraction, 1, decimals))
               + RoundUp(SubSeq(fraction, decimals + 1, Len(fraction)))
        ELSE integer * Pow10(decimals) + PadEnd(fraction, decimals)
  IN IF value.negative THEN 0 - magnitude ELSE magnitude

\* viem formatUnits(value, decimals) as getTokenBalance calls it
formatUnits(value, decimals) ==
  LET negative == value < 0
      display == PadStart(ToDigits(IF negative THEN 0 - value ELSE value),
                          decimals)
      integer == SubSeq(display, 1, Len(display) - decimals)
      fraction == TrimTrailingZeros(
                    SubSeq(display, Len(display) - decimals + 1, Len(display)))
  IN [negative |-> negative,
      integer |-> IF integer = <<>> THEN <<0>> ELSE integer,
      fraction |-> fraction]

\* a caller enters an amount for a token with the given decimals
enterAmount(amount, decimals) ==
  /\ conversion.stage = "none"
  /\ conversion' = [NoConversion EXCEPT !.stage = "entered",
                                        !.amount = amount,
                                        !.decimals = decimals]
  /\ UNCHANGED <<now, ticks, pendingPayments, issued, calls, sweeps,
                 endpointVars, walletVars, stateVars, toolVars, loopVars>>

\* transferTokens: const amount = parseUnits(params.amount, params.decimals)
encodeAmount ==
  /\ conversion.stage = "entered"
  /\ conversion' =
       [conversion EXCEPT !.stage = "encoded",
          !.raw = parseUnitsText(conversion.amount, conversion.decimals)]
  /\ UNCHANGED <<now, ticks, pendingPayments, issued, calls, sweeps,
                 endpointVars, walletVars, stateVars, toolVars, loopVars>>

\* getTokenBalance: formatUnits(BigInt(balance), decimals)
formatAmount ==
  /\ conversion.stage = "encoded"
  /\ conversion' =
       [conversion EXCEPT !.stage = "formatted",
          !.formatted = formatUnits(conversion.raw, conversion.decimals)]
  /\ UNCHANGED <<now, ticks, pendingPayments, issued, calls, sweeps,
                 endpointVars, walletVars, stateVars, toolVars, loopVars>>

\* --------------------------------------------------------- the agent's tools
\* the tools of the agent program that submit a user operation and wait
\* for it, with the message each returns on success and throws otherwise
ChainTools ==
  [createProject |->
     [done |-> "Project created successfully! The creator should now fund the project escrow with USDC.",
      failed |-> "Project creation failed"],
   approveFreelancer |->
     [done |-> "Freelancer approved successfully! They can now work on the project.",
      failed |-> "Freelancer approval failed"],
   addMilestone |->
     [done |-> "Milestone added successfully! You can now fund it with /fund-milestone.",
      failed |-> "Adding milestone failed"],
   submitWork |->
     [done |-> "Work submitted successfully! Waiting for client approval.",
      failed |-> "Work submission failed"],
   approveWork |->
     [done |-> "Work approved and payment released! SBT reputation tokens have been minted.",
      failed |-> "Work approval failed"],
   inviteFreelancer |->
     [done |-> "Freelancer invited successfully! They can now join the project directly.",
      failed |-> "Freelancer invitation failed"],
   fundMilestone |->
     [done |-> "Milestone funded successfully! Freelancer can now start working on it.",
      failed |-> "Milestone funding failed"],
   raiseDispute |->
     [done |-> "Dispute raised successfully! An arbiter will review the case.",
      failed |-> "Dispute creation failed"]]

ChainToolNames == DOMAIN ChainTools

\* the tools that read nothing from the chain
LocalToolNames == {"listProjects", "viewReputation"}

\* the two tools of the chat program (index.ts), which call the contracts
\* through an ethers signer
SignerToolNames == {"createProject", "approveMilestone"}

\* the argument encoding of a tool call: encodeFunctionData, parseUnits and
\* BigInt run inside the try block and throw on an input they cannot encode
ToolInputs == [encodable : BOOLEAN]

NotAuthorized ==
  "Error: You are not authorized to approve milestones for this project."

\* index.ts: catch (error) { return `Error ...: ${errorMessage}`; }
ToolCaughtAsValue(call, error) ==
  [call EXCEPT !.pc = "returned",
               !.result = [success |-> FALSE, transactionHash |-> "",
                           message |-> error]]

\* the agent program: catch (error) { console.error(...); throw error; }
ToolCaught(call, error) == [call EXCEPT !.pc = "thrown", !.thrown = error]

ToolFree(t) ==
  /\ toolCalls[t].pc = "idle"
  /\ t > 1 => toolCalls[t - 1].pc # "idle"

ToolFrame ==
  UNCHANGED <<now, ticks, pendingPayments, issued, calls, sweeps,
              endpointVars, walletVars, stateVars, unitVars, loopVars>>

\* a chain tool up to its await of sendUserOperation
chainToolInvoke(t, name, input) ==
  /\ ToolFree(t)
  /\ LET call == [IdleToolCall EXCEPT !.program = "agent", !.name = name,
                                      !.input = input]
     IN toolCalls' = [toolCalls EXCEPT ![t] =
          IF ~input.encodable THEN ToolCaught(call, "encoding")
          ELSE [call EXCEPT !.pc = "awaitSend"]]
  /\ ToolFrame

\* sendUserOperation settles
toolSendSettles(t, outcome) ==
  /\ toolCalls[t].pc = "awaitSend"
  /\ LET call == toolCalls[t]
     IN toolCalls' = [toolCalls EXCEPT ![t] =
          IF outcome.ok
          THEN [call EXCEPT !.pc = "awaitWait",
                            !.userOpHash = outcome.userOpHash]
          ELSE ToolCaught(call, outcome.error)]
  /\ ToolFrame

\* waitForUserOperation settles: a complete operation is returned as a
\* success, any other status becomes new Error("... failed")
toolWaitSettles(t, outcome) ==
  /\ toolCalls[t].pc = "awaitWait"
  /\ LET call == toolCalls[t]
     IN toolCalls' = [toolCalls EXCEPT ![t] =
          IF outcome.settled = "rejected" THEN ToolCaught(call, outcome.error)
          ELSE IF outcome.status = "complete"
          THEN [call EXCEPT
                  !.pc = "returned",
                  !.result = [success |-> TRUE,
                              transactionHash |-> outcome.transactionHash,
                              message |-> ChainTools[call.name].done]]
          ELSE ToolCaught(call, ChainTools[call.name].failed)]
  /\ ToolFrame

\* listProjects, viewReputation: a constant success
localToolInvoke(t, name) ==
  /\ ToolFree(t)
  /\ toolCalls' = [toolCalls EXCEPT ![t] =
       [IdleToolCall EXCEPT
          !.pc = "returned", !.program = "agent", !.name = name,
          !.result = [success |-> TRUE, transactionHash |-> "",
                      message |->
                        IF name = "listProjects"
                        THEN "Use the project address to apply with /apply command"
                        ELSE "Reputation data retrieved successfully"]]]
  /\ ToolFrame

\* applyToProject: conversation?.send(callCodec); nothing is returned, a
\* rejected lookup or send is rethrown
applyToProject(t, outcome) ==
  /\ ToolFree(t)
  /\ LET call == [IdleToolCall EXCEPT !.program = "agent",
                                      !.name = "applyToProject"]
     IN toolCalls' = [toolCalls EXCEPT ![t] =
          IF outcome = "rejected" THEN ToolCaught(call, "send rejected")
          ELSE [call EXCEPT !.pc = "returned"]]
  /\ ToolFrame

\* String.prototype.toLowerCase on the strings that occur here
toLowerCase(text) ==
  CASE text = "Ab12" -> "ab12"
    [] text = "AB12" -> "ab12"
    [] text = "/HELP" -> "/help"
    [] text = "0xA6E7" -> "0xa6e7"
    [] OTHER -> text

\* new ethers.Wallet(WALLET_KEY, provider).getAddress(): the agent's wallet
SignerAddress == "0xa6e7"

\* the chat users whose message makes the agent call a tool; the tools are
\* not handed the sender, the call record keeps it
Requesters == {"0xc11e", "0xf4ee"}

\* what project.client() reads from the contract
ProjectClients == {"0xA6E7", "0xc11e"}

\* signerAddress.toLowerCase() !== clientAddress.toLowerCase()
NotTheClient(signerAddress, clientAddress) ==
  toLowerCase(signerAddress) # toLowerCase(clientAddress)

\* a tool of index.ts up to its first await on the contract: createProject
\* submits factory.createProject, approveMilestone reads project.client()
signerToolInvoke(t, name, input, requester) ==
  /\ ToolFree(t)
  /\ LET call == [IdleToolCall EXCEPT !.program = "index", !.name = name,
                                      !.input = input,
                                      !.requester = requester]
     IN toolCalls' = [toolCalls EXCEPT ![t] =
          IF ~input.encodable
            THEN ToolCaughtAsValue(call, "Error: encoding")
          ELSE IF name = "approveMilestone"
            THEN [call EXCEPT !.pc = "awaitClient"]
          ELSE [call EXCEPT !.pc = "awaitContract", !.submitted = TRUE]]
  /\ ToolFrame

ClientReadOutcomes == {"rejected"} \cup ProjectClients

\* approveMilestone: await project.client(), the comparison with the
\* signer's address, and the call of approveAndPayMilestone
projectClientSettles(t, outcome) ==
  /\ toolCalls[t].pc = "awaitClient"
  /\ LET call == toolCalls[t]
     IN toolCalls' = [toolCalls EXCEPT ![t] =
          IF outcome = "rejected"
            THEN ToolCaughtAsValue(call, "Error approving milestone")
          ELSE IF NotTheClient(SignerAddress, outcome)
            THEN [call EXCEPT
                    !.pc = "returned", !.client = outcome,
                    !.result =
                      [success |-> FALSE, transactionHash |-> "",
                       message |-> NotAuthorized]]
          ELSE [call EXCEPT !.pc = "awaitContract", !.client = outcome,
                            !.submitted = TRUE]]
  /\ ToolFrame

\* how the contract transaction of an index.ts tool may end
SignerOutcomes == {"mined", "rejected"}

signerToolSettles(t, outcome) ==
  /\ toolCalls[t].pc = "awaitContract"
  /\ LET call == toolCalls[t]
         creating == call.name = "createProject"
     IN toolCalls' = [toolCalls EXCEPT ![t] =
          [call EXCEPT
             !.pc = "returned",
             !.result =
               IF outcome = "mined"
                 THEN [success |-> TRUE, transactionHash |-> "",
                       message |->
                         IF creating
                         THEN "Successfully created project contract"
                         ELSE "Success! Milestone has been approved and payment has been sent."]
                 ELSE [success |-> FALSE, transactionHash |-> "",
                       message |->
                         IF creating THEN "Error creating project"
                         ELSE "Error approving milestone"]]]
  /\ ToolFrame

\* ---------------------------------------------------------- message loops
\* Two programs listen on streamAllMessages(): the chat program
\* (src/src/index.ts, entry "index") and the agent program (entry "agent").

\* client.inboxId
ClientInboxId == "Ab12"

\* senderAddress.toLowerCase() === client.inboxId.toLowerCase()
IsOwnMessageExact(message) == message.senderInboxId = ClientInboxId
IsOwnMessage(message) ==
  toLowerCase(message.senderInboxId) = toLowerCase(ClientInboxId)

\* the keys of COMMANDS
COMMANDS ==
  {"create", "list", "apply", "approve", "invite", "dashboard",
   "add-milestone", "fund-milestone", "submit-work", "approve-work",
   "dispute", "reputation", "help"}

HELP_MESSAGE == "CollabraChain Commands ... Type /help anytime to see this menu."

\* processMessage's catch: what it returns in place of the agent's answer
ProcessingApology ==
  <<"Sorry, I encountered an error while processing your request. Please try again later.">>

\* handleMessage's catch: what it sends when it has a conversation
HandlingError ==
  <<"I encountered an error while processing your request. Please try again later.">>

\* the agent program's catch: the error's message, then the help text
ErrorWithHelp(errorMessage) ==
  <<"Sorry, I encountered an error: ", errorMessage, HELP_MESSAGE>>

AgentAnswer == <<"agent answer">>
ListNotice == <<"Fetching available projects...">>
Dashboard == <<"Your Dashboard", "Use specific commands to manage your projects!">>

\* firstWord.startsWith("/")
startsWithSlash(word) == word \in {"/help", "/HELP", "/list", "/dashboard"}

\* word.replace("/", ""): the first slash removed
withoutSlash(word) ==
  CASE word = "/help" -> "help"
    [] word = "/list" -> "list"
    [] word = "/dashboard" -> "dashboard"
    [] OTHER -> word

\* parseCommand on content.trim().split(/\s+/); rest[0] of "@collab" alone
\* is undefined and its toLowerCase() throws a TypeError
parseCommand(words) ==
  LET firstWord == Head(words)
      rest == Tail(words)
  IN  IF toLowerCase(firstWord) = "@collab"
        THEN IF rest = <<>>
               THEN [thrown |-> "Cannot read properties of undefined",
                     command |-> "", args |-> <<>>]
               ELSE [thrown |-> "", command |-> toLowerCase(Head(rest)),
                     args |-> Tail(rest)]
      ELSE IF startsWithSlash(firstWord)
        THEN [thrown |-> "", command |-> withoutSlash(toLowerCase(firstWord)),
              args |-> rest]
      ELSE [thrown |-> "", command |-> "", args |-> <<>>]

\* `await handleMessage(message, client)` and the awaits in the body of the
\* agent program's loop: the next message is pulled once the handling of
\* the one before has returned
AwaitedDetached(n) == TRUE
Awaited(n) == IF n = 0 THEN TRUE ELSE handlings[n].pc = "done"

LoopFrame ==
  UNCHANGED <<now, ticks, pendingPayments, issued, calls, sweeps,
              endpointVars, walletVars, stateVars, unitVars, toolVars>>

Deliver(n, text) ==
  Append(sent, [message |-> n, conversationId |-> stream[n].conversationId,
                text |-> text])

\* main(): the client is ready and the stream is open
main(entry) ==
  /\ loop.entry = "none"
  /\ loop' = [loop EXCEPT !.entry = entry]
  /\ UNCHANGED <<stream, handlings, sent>>
  /\ LoopFrame

\* the network delivers a message to the open stream
messageArrives(message) ==
  /\ loop.entry # "none"
  /\ Len(stream) < MaxMessages
  /\ stream' = Append(stream, message)
  /\ UNCHANGED <<loop, handlings, sent>>
  /\ LoopFrame

\* the agent program's body after getConversationById and getUserAddress:
\* parseCommand and the commands answered without the agent
AfterLookup(handling, message) ==
  LET parsed == parseCommand(message.content)
  IN  IF parsed.thrown # ""
        THEN [handling EXCEPT !.pc = "catchSend", !.failure = "parse",
                              !.response = ErrorWithHelp(parsed.thrown)]
      ELSE IF parsed.command = "help"
        THEN [handling EXCEPT !.pc = "send", !.response = <<HELP_MESSAGE>>]
      ELSE IF /\ parsed.command \in COMMANDS
              /\ parsed.command = "list" /\ parsed.args # <<>>
        THEN [handling EXCEPT !.pc = "notice", !.response = ListNotice]
      ELSE IF parsed.command \in COMMANDS /\ parsed.command = "dashboard"
        THEN [handling EXCEPT !.pc = "send", !.response = Dashboard]
      ELSE [handling EXCEPT !.pc = "invoke", !.invoked = TRUE]

\* for await (const message of stream): the loop takes the next message and
\* runs its handling up to the first await
streamNext ==
  LET n == loop.pulled + 1
      message == stream[n]
      handling == handlings[n]
  IN  /\ loop.entry # "none"
      /\ loop.pulled < Len(stream)
      /\ Awaited(loop.pulled)
      /\ loop' = [loop EXCEPT !.pulled = n]
      /\ handlings' =
           [handlings EXCEPT ![n] =
              IF loop.entry = "index"
                THEN IF IsOwnMessage(message)
                       THEN [handling EXCEPT !.pc = "done"]
                       ELSE [handling EXCEPT !.pc = "init",
                                             !.initialised = TRUE]
              ELSE IF \/ IsOwnMessage(message)
                      \/ message.contentType # "text"
                     THEN [handling EXCEPT !.pc = "done"]
                     ELSE [handling EXCEPT !.pc = "lookup"]]
      /\ UNCHANGED <<stream, sent>>
      /\ LoopFrame

\* index.ts: await initializeAgent(senderAddress); a rejection is caught
\* while `conversation` is still null, so nothing is sent
initializeAgentSettles(n, outcome) ==
  /\ handlings[n].pc = "init"
  /\ handlings' =
       [handlings EXCEPT ![n] =
          IF outcome = "ok"
            THEN [handlings[n] EXCEPT !.pc = "process", !.invoked = TRUE]
            ELSE [handlings[n] EXCEPT !.pc = "done", !.failure = "init"]]
  /\ UNCHANGED <<stream, loop, sent>>
  /\ LoopFrame

\* index.ts: processMessage returns the agent's answer or, when agent.stream
\* fails, its apology; then getConversationById is called
processMessageSettles(n, outcome) ==
  /\ handlings[n].pc = "process"
  /\ handlings' =
       [handlings EXCEPT ![n] =
          IF outcome = "ok"
            THEN [handlings[n] EXCEPT !.pc = "lookup",
                                      !.response = AgentAnswer]
            ELSE [handlings[n] EXCEPT !.pc = "lookup",
                                      !.response = ProcessingApology,
                                      !.failure = "invoke"]]
  /\ UNCHANGED <<stream, loop, sent>>
  /\ LoopFrame

\* await client.conversations.getConversationById(message.conversationId)
getConversationSettles(n, outcome) ==
  /\ handlings[n].pc = "lookup"
  /\ handlings' =
       [handlings EXCEPT ![n] =
          IF loop.entry = "index"
            THEN IF outcome = "found"
                   THEN [handlings[n] EXCEPT !.pc = "send",
                                             !.conversation = TRUE]
                   ELSE [handlings[n] EXCEPT !.pc = "done",
                                             !.failure = "lookup"]
          ELSE IF outcome = "found"
            THEN AfterLookup([handlings[n] EXCEPT !.conversation = TRUE],
                             stream[n])
          ELSE IF outcome = "null"
            THEN [handlings[n] EXCEPT !.pc = "done", !.failure = "lookup"]
          ELSE [handlings[n] EXCEPT !.pc = "rejected",
                                    !.failure = "lookup"]]
  /\ UNCHANGED <<stream, loop, sent>>
  /\ LoopFrame

\* the agent program: await agent.invoke(...)
agentInvokeSettles(n, outcome) ==
  /\ handlings[n].pc = "invoke"
  /\ handlings' =
       [handlings EXCEPT ![n] =
          IF outcome = "content"
            THEN [handlings[n] EXCEPT !.pc = "send",
                                      !.response = AgentAnswer]
          ELSE IF outcome = "empty"
            THEN [handlings[n] EXCEPT !.pc = "done"]
          ELSE [handlings[n] EXCEPT
                  !.pc = "catchSend", !.failure = "invoke",
                  !.response = ErrorWithHelp("agent failed")]]
  /\ UNCHANGED <<stream, loop, sent>>
  /\ LoopFrame

\* await conversation.send(...) inside the try block
sendSettles(n, outcome) ==
  /\ handlings[n].pc \in {"send", "notice"}
  /\ IF outcome = "ok"
       THEN /\ sent' = Deliver(n, handlings[n].response)
            /\ handlings' =
                 [handlings EXCEPT ![n] =
                    IF handlings[n].pc = "notice"
                      THEN [handlings[n] EXCEPT !.pc = "invoke",
                                                !.invoked = TRUE]
                      ELSE [handlings[n] EXCEPT !.pc = "done"]]
       ELSE /\ sent' = sent
            /\ handlings' =
                 [handlings EXCEPT ![n] =
                    [handlings[n] EXCEPT
                       !.pc = "catchSend",
                       !.failure = IF handlings[n].failure = ""
                                     THEN "send" ELSE handlings[n].failure,
                       !.response =
                          IF loop.entry = "index" THEN HandlingError
                          ELSE ErrorWithHelp("send failed")]]
  /\ UNCHANGED <<stream, loop>>
  /\ LoopFrame

\* await conversation.send(...) inside the catch block: a rejection here
\* leaves the handler, and with it the loop
catchSendSettles(n, outcome) ==
  /\ handlings[n].pc = "catchSend"
  /\ IF outcome = "ok"
       THEN /\ sent' = Deliver(n, handlings[n].response)
            /\ handlings' = [handlings EXCEPT ![n].pc = "done"]
       ELSE /\ sent' = sent
            /\ handlings' = [handlings EXCEPT ![n].pc = "rejected"]
  /\ UNCHANGED <<stream, loop>>
  /\ LoopFrame

Standalone == UNCHANGED <<endpointVars, walletVars, hostVars>>
\* the endpoints and the gateway behind them run; nothing else does
EndpointsOnly == UNCHANGED <<walletVars, hostVars>>

\* Issuance and expiry alone, over the whole price table.
NextIssue ==
  \/ ticks < MaxTicks /\ Standalone /\ \E d \in TickDeltas : Tick(d)
  \/ Len(issued) < MaxIssued /\ Standalone
       /\ \E scenario \in ScenarioKeys : generatePaymentRequest(scenario)
  \/ Standalone /\ cleanupExpiredPayments

SpecIssue == Init /\ [][NextIssue]_vars

\* Verification interleaved with issuance, expiry and the clock.
VerifyScenarios == {"AI_PROJECT_CREATION"}
\* JSON bodies of a 2xx answer to /verify (X402VerificationResult; a body may
\* lack the verified field)
VerifyBodies ==
  {[verified |-> TRUE], [verified |-> FALSE], [reason |-> "no such transfer"]}
\* One advance of the clock takes every pending challenge past its deadline.
VerifyTickDeltas == {3601200}
\* Transaction references a caller reports.
VerifyTxHashes == {"0xaaa"}

\* The clock matters to verification only through expiry: it advances while
\* a challenge that has not expired is pending.
SomeUnexpired ==
  \E id \in DOMAIN pendingPayments :
     ~Expired(pendingPayments[id], UnixSeconds(now))

Next ==
  \/ SomeUnexpired /\ Standalone /\ \E d \in VerifyTickDeltas : Tick(d)
  \/ Len(issued) < MaxRedeemable /\ Standalone
       /\ \E scenario \in VerifyScenarios : generatePaymentRequest(scenario)
  \/ Standalone /\ cleanupExpiredPayments
  \/ Standalone
       /\ \E c \in Calls, paymentId \in CallerIds(issued),
               transactionHash \in VerifyTxHashes :
            verifyPaymentStart(c, paymentId, transactionHash)
  \/ Standalone
       /\ \E c \in Calls, outcome \in FetchOutcomes :
            verifyFetchResolve(c, outcome)
  \/ Standalone /\ \E c \in Calls : verifyJsonFail(c)
  \/ Standalone
       /\ \E c \in Calls, body \in VerifyBodies : verifyJsonResolve(c, body)
  \/ Standalone
       /\ \E c \in Calls, outcome \in SettleOutcomes :
            settlePaymentResolve(c, outcome)

Spec == Init /\ [][Next]_vars

\* The request sent to the facilitator, over the whole price table and two
\* transaction references; the clock stands still.
RequestTxHashes == {"0xaaa", "0xbbb"}
RequestBodies == {[verified |-> TRUE], [verified |-> FALSE]}

NextRequest ==
  \/ Len(issued) < MaxRedeemable /\ Standalone
       /\ \E scenario \in ScenarioKeys : generatePaymentRequest(scenario)
  \/ Standalone
       /\ \E c \in Calls, paymentId \in CallerIds(issued),
               transactionHash \in RequestTxHashes :
            verifyPaymentStart(c, paymentId, transactionHash)
  \/ Standalone /\ \E c \in Calls : verifyFetchResolve(c, "ok")
  \/ Standalone
       /\ \E c \in Calls, body \in RequestBodies : verifyJsonResolve(c, body)
  \/ Standalone /\ \E c \in Calls : settlePaymentResolve(c, "ok")

SpecRequest == Init /\ [][NextRequest]_vars

\* Facilitator answers that name the amount they confirmed: the challenge's
\* own, a smaller one, or none.
AmountBodies ==
  {[verified |-> TRUE], [verified |-> TRUE, amount |-> "1000000"],
   [verified |-> TRUE, amount |-> "1"], [verified |-> FALSE, amount |-> "1"]}

NextAmount ==
  \/ Len(issued) < MaxRedeemable /\ Standalone
       /\ \E scenario \in VerifyScenarios : generatePaymentRequest(scenario)
  \/ Standalone
       /\ \E c \in Calls, paymentId \in CallerIds(issued),
               transactionHash \in RequestTxHashes :
            verifyPaymentStart(c, paymentId, transactionHash)
  \/ Standalone /\ \E c \in Calls : verifyFetchResolve(c, "ok")
  \/ Standalone
       /\ \E c \in Calls, body \in AmountBodies : verifyJsonResolve(c, body)
  \/ Standalone /\ \E c \in Calls : settlePaymentResolve(c, "ok")

SpecAmount == Init /\ [][NextAmount]_vars

\* A facilitator that judges a reference by what the transfer paid: the
\* answer to POST /verify is verified:true exactly when the transaction
\* exists and its amount, recipient and currency are the expected ones.
ChainTransfers ==
  ("0xaaa" :> [amount |-> "1000000", recipient |-> DefaultRecipient,
               currency |-> "USDC"])
  @@ ("0xbbb" :> [amount |-> "500000", recipient |-> DefaultRecipient,
                  currency |-> "USDC"])

FacilitatorAnswer(request) ==
  [verified |->
     /\ request.transactionHash \in DOMAIN ChainTransfers
     /\ ChainTransfers[request.transactionHash]
          = [amount |-> request.expectedAmount,
             recipient |-> request.expectedRecipient,
             currency |-> request.expectedCurrency]]

facilitatorJudges(c) ==
  /\ calls[c].pc = "awaitJson"
  /\ verifyJsonResolve(c, FacilitatorAnswer(calls[c].request))

ReplayScenarios == {"AI_PROJECT_CREATION", "APPLICATION_SIGNAL_FEE"}

NextReplay ==
  \/ Len(issued) < MaxIssued /\ Standalone
       /\ \E scenario \in ReplayScenarios : generatePaymentRequest(scenario)
  \/ Standalone
       /\ \E c \in Calls, paymentId \in CallerIds(issued),
               transactionHash \in RequestTxHashes :
            verifyPaymentStart(c, paymentId, transactionHash)
  \/ Standalone /\ \E c \in Calls : verifyFetchResolve(c, "ok")
  \/ Standalone /\ \E c \in Calls : facilitatorJudges(c)
  \/ Standalone /\ \E c \in Calls : settlePaymentResolve(c, "ok")

SpecReplay == Init /\ [][NextReplay]_vars

\* Several challenges of different prices, verified in any interleaving by
\* calls that name any of them; the clock stands still.
IndependentScenarios == {"AI_PROJECT_CREATION", "DISPUTE_BOND"}
IndependentFetchOutcomes == {"notok", "ok"}

NextIndependent ==
  \/ Len(issued) < MaxIssued /\ Standalone
       /\ \E scenario \in IndependentScenarios :
            generatePaymentRequest(scenario)
  \/ Standalone
       /\ \E c \in Calls, paymentId \in CallerIds(issued),
               transactionHash \in VerifyTxHashes :
            verifyPaymentStart(c, paymentId, transactionHash)
  \/ Standalone
       /\ \E c \in Calls, outcome \in IndependentFetchOutcomes :
            verifyFetchResolve(c, outcome)
  \/ Standalone
       /\ \E c \in Calls, body \in RequestBodies : verifyJsonResolve(c, body)
  \/ Standalone /\ \E c \in Calls : settlePaymentResolve(c, "ok")

SpecIndependent == Init /\ [][NextIndependent]_vars

\* The message loop of either program on a stream of a few messages: from
\* another user, from the agent's own inbox in two spellings, not a text.
Entries == {"index", "agent"}
Contents ==
  {<<"hello">>, <<"/HELP">>, <<"@collab">>, <<"/list", "open">>,
   <<"/dashboard">>}

InboundMessages ==
  [senderInboxId : {"cd34"}, conversationId : {"c1"},
   contentType : {"text"}, content : Contents]
  \cup [senderInboxId : {"cd34"}, conversationId : {"c2"},
        contentType : {"text", "reaction"}, content : {<<"hello">>}]
  \cup [senderInboxId : {"Ab12", "AB12"}, conversationId : {"c1"},
        contentType : {"text"}, content : {<<"agent answer">>}]

AwaitOutcomes == {"ok", "failed"}
LookupOutcomes == {"found", "null", "rejected"}
InvokeOutcomes == {"content", "empty", "failed"}

NextLoop ==
  \/ \E entry \in Entries : main(entry)
  \/ \E message \in InboundMessages : messageArrives(message)
  \/ streamNext
  \/ \E n \in Messages, outcome \in AwaitOutcomes :
       initializeAgentSettles(n, outcome)
  \/ \E n \in Messages, outcome \in AwaitOutcomes :
       processMessageSettles(n, outcome)
  \/ \E n \in Messages, outcome \in LookupOutcomes :
       getConversationSettles(n, outcome)
  \/ \E n \in Messages, outcome \in InvokeOutcomes :
       agentInvokeSettles(n, outcome)
  \/ \E n \in Messages, outcome \in AwaitOutcomes : sendSettles(n, outcome)
  \/ \E n \in Messages, outcome \in AwaitOutcomes :
       catchSendSettles(n, outcome)

SpecLoop == Init /\ [][NextLoop]_vars

\* The synchronous part of the API: what the router and the handlers answer
\* without a call to the facilitator.
Opt(field, values) == {EmptyBody} \cup {field :> v : v \in values}

\* request bodies: each field absent, falsy or set
EndpointBodies ==
  {u @@ p @@ m @@ r :
     u \in Opt("userId", {"user-1"}),
     p \in Opt("projectAddress", {"0xProject"}),
     m \in Opt("milestoneId", {0, 1}),
     r \in Opt("disputeReason", {"", "late delivery"})}

\* process bodies the router turns away
RejectedProcessBodies ==
  {i @@ t :
     i \in Opt("paymentId", {UnknownId}),
     t \in Opt("transactionHash", {""})}

NextEndpoints ==
  \/ Len(issued) < MaxIssued /\ EndpointsOnly
       /\ \E route \in Routes, body \in EndpointBodies :
            requestPayment(route, body)
  \/ EndpointsOnly
       /\ \E route \in Routes, body \in RejectedProcessBodies :
            processPayment(1, route, body)
  \/ EndpointsOnly
       /\ \E paymentId \in CallerIds(issued) : getPaymentStatus(paymentId)

SpecEndpoints == Init /\ [][NextEndpoints]_vars

\* The paid flow: one request route and its process route, the facilitator,
\* the clock and the cleanup timer. Process requests arrive one at a time
\* (overlapping calls are the subject of Spec).
ProcessRequestBodies == {"userId" :> "user-1"}
ProcessRoutes == {"ai-project"}
ProcessBodies(log) ==
  {("paymentId" :> i) @@ ("transactionHash" :> t) :
     i \in CallerIds(log), t \in VerifyTxHashes}
ProcessFetchOutcomes == {"ok"}
\* One advance of the clock takes a session past its age limit and leaves
\* its challenge within its deadline; a second takes the challenge past it.
ProcessTickDeltas == {3600600}
NoCallInFlight == \A c \in Calls : calls[c].pc = "idle" \/ Finished(calls[c])

NextProcess ==
  \/ SomeUnexpired /\ Standalone /\ \E d \in ProcessTickDeltas : Tick(d)
  \/ Len(issued) < MaxRedeemable /\ EndpointsOnly
       /\ \E body \in ProcessRequestBodies : requestPayment("ai-project", body)
  \/ EndpointsOnly /\ cleanupInterval
  \/ NoCallInFlight /\ EndpointsOnly
       /\ \E c \in Calls, route \in ProcessRoutes,
               body \in ProcessBodies(issued) :
            processPayment(c, route, body)
  \/ EndpointsOnly
       /\ \E c \in Calls, outcome \in ProcessFetchOutcomes :
            processFetchResolve(c, outcome)
  \/ EndpointsOnly
       /\ \E c \in Calls, body \in RequestBodies : processJsonResolve(c, body)
  \/ EndpointsOnly /\ \E c \in Calls : processSettleResolve(c, "ok")

SpecProcess == Init /\ [][NextProcess]_vars

\* Challenges requested on two routes of different prices and process
\* requests on either route naming either id, one at a time.
BindingRoutes == {"application", "dispute"}
BindingBodies ==
  {("userId" :> "user-1") @@ ("projectAddress" :> "0xProject")
     @@ ("milestoneId" :> 1) @@ ("disputeReason" :> "late delivery")}

NextBinding ==
  \/ Len(issued) < MaxIssued /\ EndpointsOnly
       /\ \E route \in BindingRoutes, body \in BindingBodies :
            requestPayment(route, body)
  \/ NoCallInFlight /\ EndpointsOnly
       /\ \E c \in Calls, route \in BindingRoutes,
               body \in ProcessBodies(issued) :
            processPayment(c, route, body)
  \/ EndpointsOnly
       /\ \E c \in Calls, outcome \in ProcessFetchOutcomes :
            processFetchResolve(c, outcome)
  \/ EndpointsOnly
       /\ \E c \in Calls, body \in RequestBodies : processJsonResolve(c, body)
  \/ EndpointsOnly /\ \E c \in Calls : processSettleResolve(c, "ok")

SpecBinding == Init /\ [][NextBinding]_vars

\* The life of a challenge and its session under a clock that keeps
\* advancing and a cleanup timer that keeps firing: the clock runs on for
\* two more steps of over an hour after the last challenge can be issued,
\* which takes every challenge past its deadline. One process request is
\* made in a run.
HoursAfterLastIssue == 2

ExpiryTick ==
  /\ ticks < MaxTicks + HoursAfterLastIssue
  /\ Standalone
  /\ \E d \in ProcessTickDeltas : Tick(d)

ExpiryCleanup == EndpointsOnly /\ cleanupInterval

NextExpiry ==
  \/ ExpiryTick
  \/ ExpiryCleanup
  \/ Len(issued) < MaxIssued /\ ticks <= MaxTicks /\ EndpointsOnly
       /\ \E body \in ProcessRequestBodies : requestPayment("ai-project", body)
  \/ EndpointsOnly
       /\ \E route \in ProcessRoutes, body \in ProcessBodies(issued) :
            processPayment(1, route, body)
  \/ EndpointsOnly /\ \E c \in Calls : processFetchResolve(c, "ok")
  \/ EndpointsOnly
       /\ \E c \in Calls, body \in RequestBodies : processJsonResolve(c, body)
  \/ EndpointsOnly /\ \E c \in Calls : processSettleResolve(c, "ok")

\* Time passes, and Node runs the setInterval callback whenever it is due.
SpecExpiry ==
  Init /\ [][NextExpiry]_vars /\ WF_vars(ExpiryTick) /\ WF_vars(ExpiryCleanup)

\* The wallet executor against a provider that accepts or rejects a
\* submission and whose wait resolves, rejects or stays pending.
NativeAmounts == {0 - 1, 0, 1000}
TokenAmounts == {"1.5", "0", "-2", "abc"}
MilestonePayments == {<<"100">>, <<"0">>, <<"abc">>}
MilestoneIndexes == {0, 1}
TokenTransfers ==
  {[tokenAddress |-> USDC_ADDRESS, to |-> to, amount |-> amount,
    decimals |-> 6] : to \in Addresses, amount \in TokenAmounts}
ContractCalls ==
  {[contractAddress |-> DefaultRecipient, functionName |-> "submitWork",
    encodable |-> encodable] : encodable \in BOOLEAN}

NextWallet ==
  \/ \E outcome \in InitializeOutcomes : initialize(outcome)
  \/ \E o \in Ops, to \in Addresses, amount \in NativeAmounts :
       sendNativeTokens(o, to, amount)
  \/ \E o \in Ops, params \in TokenTransfers : transferTokens(o, params)
  \/ \E o \in Ops, params \in ContractCalls : callContract(o, params)
  \/ \E o \in Ops, freelancer \in Addresses,
          milestonePayments \in MilestonePayments :
       createProject(o, DefaultRecipient, DefaultRecipient, freelancer,
                     milestonePayments)
  \/ \E o \in Ops, projectAddress \in Addresses,
          milestoneIndex \in MilestoneIndexes :
       approveMilestone(o, projectAddress, milestoneIndex)
  \/ \E o \in Ops, outcome \in SendOutcomes :
       sendUserOperationSettles(o, outcome)
  \/ \E o \in Ops, outcome \in WaitOutcomes : providerWaitSettles(o, outcome)
  \/ \E o \in Ops : waitForUserOperationResume(o)

SpecWallet == Init /\ [][NextWallet]_vars

\* The event loop runs the continuation of every settled promise; nothing
\* makes the provider settle one.
SpecWalletLive ==
  SpecWallet /\ \A o \in Ops : WF_vars(waitForUserOperationResume(o))

\* Wallet state of one user, read and refreshed by sequential calls while
\* the clock passes the five-minute mark.
StateTickDeltas == {300000, 300001}

NextState ==
  \/ \E outcome \in InitializeOutcomes : initialize(outcome)
  \/ ticks < MaxTicks /\ UNCHANGED <<endpointVars, walletVars, hostVars>>
       /\ \E d \in StateTickDeltas : Tick(d)
  \/ \E userId \in Users : getOrCreateWalletState(userId)
  \/ \E userId \in Users : refreshWalletState(userId)
  \/ \E reads \in ReadOutcomes : refreshReadsSettle(reads)

SpecState == Init /\ [][NextState]_vars

\* Amounts a caller may type, taken through the encoding of a transfer
\* and the formatting of a balance.
DigitChoices == {0, 1, 5}
DigitStrings(length) ==
  UNION {[1..n -> DigitChoices] : n \in 0..length}
EnteredAmounts ==
  [negative : BOOLEAN, integer : DigitStrings(MaxIntDigits),
   fraction : DigitStrings(MaxFracDigits)]
TokenDecimals == {0, 1, 6}

NextUnits ==
  \/ \E amount \in EnteredAmounts, decimals \in TokenDecimals :
       enterAmount(amount, decimals)
  \/ encodeAmount
  \/ formatAmount

SpecUnits == Init /\ [][NextUnits]_vars

\* The agent's tools, invoked with inputs that encode or do not, against a
\* provider that accepts or rejects and reports any status.
NextTools ==
  \/ \E t \in ToolCalls, name \in ChainToolNames, input \in ToolInputs :
       chainToolInvoke(t, name, input)
  \/ \E t \in ToolCalls, outcome \in SendOutcomes : toolSendSettles(t, outcome)
  \/ \E t \in ToolCalls, outcome \in WaitOutcomes : toolWaitSettles(t, outcome)
  \/ \E t \in ToolCalls, name \in LocalToolNames : localToolInvoke(t, name)
  \/ \E t \in ToolCalls, outcome \in {"sent", "rejected"} :
       applyToProject(t, outcome)
  \/ \E t \in ToolCalls, name \in SignerToolNames, input \in ToolInputs,
          requester \in Requesters :
       signerToolInvoke(t, name, input, requester)
  \/ \E t \in ToolCalls, outcome \in ClientReadOutcomes :
       projectClientSettles(t, outcome)
  \/ \E t \in ToolCalls, outcome \in SignerOutcomes :
       signerToolSettles(t, outcome)

SpecTools == Init /\ [][NextTools]_vars

\* ------------------------------------------------------------------ claims
Started(c) == calls[c].pc # "idle"
Returned(c) == calls[c].pc = "returned"
ReturnedVerified(c) == Returned(c) /\ calls[c].result.verified
SamePayment(c1, c2) == calls[c1].paymentId = calls[c2].paymentId
\* c1 had returned before c2 was called
Precedes(c1, c2) == Started(c2) /\ c1 \in calls[c2].before
\* both were called, and neither had returned when the other was called
Concurrent(c1, c2) ==
  /\ Started(c1) /\ Started(c2)
  /\ c1 \notin calls[c2].before /\ c2 \notin calls[c1].before
SweptIds == UNION {s.removed : s \in sweeps}

\* C1: two verifyPayment calls for one pending id that overlap at the await
\* on the facilitator, both answered verified:true, end with exactly one of
\* them returning verified:true and the other verified:false.
AtMostOnceRedemption ==
  \A c1, c2 \in Calls :
    (/\ c1 # c2 /\ Concurrent(c1, c2) /\ SamePayment(c1, c2)
     /\ calls[c1].answer = "true" /\ calls[c2].answer = "true"
     /\ Finished(calls[c1]) /\ Finished(calls[c2]))
    => /\ Returned(c1) /\ Returned(c2)
       /\ calls[c1].result.verified # calls[c2].result.verified

\* C2: no payment id is both removed as expired by a sweep and redeemed by a
\* verifyPayment call returning verified:true.
NoRedeemOfSweptPayment ==
  \A c \in Calls : ReturnedVerified(c) => calls[c].paymentId \notin SweptIds

\* C3: a verifyPayment call for an id, called after a call for the same id
\* returned verified:true, returns verified:false and calls neither the
\* verify nor the settle endpoint.
SequentialSingleRedemption ==
  \A c1, c2 \in Calls :
    (Precedes(c1, c2) /\ ReturnedVerified(c1) /\ SamePayment(c1, c2))
    => /\ Returned(c2)
       /\ ~calls[c2].result.verified
       /\ ~calls[c2].sent
       /\ calls[c2].settle = "none"

SequentialSingleRedemptionWitness ==
  \E c1, c2 \in Calls :
    Precedes(c1, c2) /\ ReturnedVerified(c1) /\ SamePayment(c1, c2)

\* C4: a verifyPayment call naming an id that is not in the pending store
\* returns verified:false at once, without throwing, without a request to the
\* facilitator, and leaves the pending store as it was.
UnknownIdRejected ==
  [][\A c \in Calls :
       (/\ calls[c].pc = "idle"
        /\ calls'[c].pc # "idle"
        /\ calls'[c].paymentId \notin DOMAIN pendingPayments)
       => /\ calls'[c].pc = "returned"
          /\ ~calls'[c].result.verified
          /\ ~calls'[c].sent
          /\ calls'[c].settle = "none"
          /\ pendingPayments' = pendingPayments]_vars

UnknownIdRejectedWitness ==
  \E c \in Calls :
    /\ Returned(c) /\ ~calls[c].found
    /\ calls[c].paymentId = UnknownId
    /\ pendingPayments # <<>>

\* C5: a verify call that fails at the facilitator (network exception,
\* non-2xx status, unparsable body) ends with verifyPayment returning
\* verified:false; it never ends with a throw.
FacilitatorFailureCaught ==
  \A c \in Calls :
    /\ calls[c].pc # "thrown"
    /\ calls[c].answer \in {"threw", "notok", "badjson"}
         => Returned(c) /\ ~calls[c].result.verified

FacilitatorFailureCaughtWitness ==
  \E c1, c2 \in Calls :
    /\ calls[c1].answer = "badjson"
    /\ calls[c2].answer \in {"threw", "notok"}

\* C6: every step of a verifyPayment call that does not reach the verified
\* branch leaves the pending store as it is; a call that found the challenge
\* and returns verified:false has not called settle; and a call that finds
\* the challenge and is answered verified:true returns verified:true.
RejectedLeavesChallenge ==
  /\ [](\A c \in Calls :
          /\ (Returned(c) /\ calls[c].found /\ ~calls[c].result.verified)
               => calls[c].settle = "none"
          /\ (Finished(calls[c]) /\ calls[c].found /\ calls[c].answer = "true")
               => ReturnedVerified(c))
  /\ [][\A c \in Calls :
          (calls'[c] # calls[c] /\ calls'[c].settle = "none")
          => pendingPayments' = pendingPayments]_vars

RejectedLeavesChallengeWitness ==
  \E c1, c2 \in Calls :
    /\ Precedes(c1, c2) /\ SamePayment(c1, c2)
    /\ Returned(c1) /\ calls[c1].found /\ ~calls[c1].result.verified
    /\ ReturnedVerified(c2)

\* C7: the settle endpoint is called for an id only in an invocation whose
\* verify call was answered verified:true, and only once the id is out of
\* the pending store.
SettleOnlyAfterVerifiedAndRemoved ==
  \A c \in Calls :
    calls[c].settle # "none"
    => /\ calls[c].answer = "true"
       /\ calls[c].paymentId \notin DOMAIN pendingPayments

SettleOnlyAfterVerifiedAndRemovedWitness ==
  \E c \in Calls : calls[c].settle = "sent"

\* C8: when the settle call fails (non-2xx or network exception) after a
\* verified:true answer, verifyPayment returns verified:true and the id
\* stays out of the pending store.
SettlementFailureKeepsVerification ==
  \A c \in Calls :
    calls[c].settle \in {"notok", "threw"}
    => /\ ReturnedVerified(c)
       /\ calls[c].paymentId \notin DOMAIN pendingPayments

SettlementFailureKeepsVerificationWitness ==
  \E c \in Calls : calls[c].settle = "threw" /\ Returned(c)

\* C9: every challenge issued has an id no earlier challenge had, the amount
\* and currency of its scenario, and a deadline of the issue time in whole
\* Unix seconds plus 3600; it is stored in the pending store under its id.
ChallengeIssuedAsPriced ==
  /\ [](\A i \in 1..Len(issued) :
          LET e == issued[i]
              issuedSec == e.payment.deadline - ExpirySeconds
          IN /\ \A j \in 1..(i - 1) :
                  issued[j].payment.paymentId # e.payment.paymentId
             /\ e.payment.amount = X402_PAYMENT_SCENARIOS[e.scenario].amount
             /\ e.payment.currency = X402_PAYMENT_SCENARIOS[e.scenario].currency
             /\ issuedSec * MsPerSecond <= e.at
             /\ e.at < (issuedSec + 1) * MsPerSecond)
  /\ [][Len(issued') = Len(issued) + 1
        => LET e == issued'[Len(issued')]
           IN /\ e.payment.paymentId \notin DOMAIN pendingPayments
              /\ e.payment.paymentId \in DOMAIN pendingPayments'
              /\ pendingPayments'[e.payment.paymentId] = e.payment]_vars

ChallengeIssuedAsPricedWitness ==
  /\ Len(issued) = MaxIssued
  /\ \E i, j \in 1..Len(issued) :
       /\ issued[i].scenario # issued[j].scenario
       /\ issued[j].at % MsPerSecond # 0
       /\ issued[j].payment.paymentId \in DOMAIN pendingPayments

\* C10: a sweep at time T leaves in the pending store exactly the challenges
\* that were there and whose deadline has not passed at T, each unchanged;
\* sweeping the result again at T removes nothing.
SweepRemovesExactlyExpired ==
  [][cleanupExpiredPayments
     => /\ pendingPayments' =
             [id \in {i \in DOMAIN pendingPayments :
                        now < (pendingPayments[i].deadline + 1) * MsPerSecond}
                |-> pendingPayments[id]]
        /\ SweepStore(pendingPayments', UnixSeconds(now)) = pendingPayments']_vars

SweepRemovesExactlyExpiredWitness ==
  \E s \in sweeps : s.removed # {} /\ s.kept # {}

\* C11: every request sent to the facilitator's verify endpoint carries the
\* amount, recipient and currency of the challenge stored under the payment
\* id, whatever the caller passed; of the caller's values only the payment id
\* and the transaction reference appear in it, and a call that finds no
\* challenge sends nothing.
VerifyRequestFromStoredChallenge ==
  \A c \in Calls :
    /\ calls[c].sent => calls[c].found
    /\ calls[c].sent
         => /\ calls[c].paymentId \in 1..Len(issued)
            /\ LET challenge == issued[calls[c].paymentId].payment
               IN calls[c].request =
                    [paymentId |-> calls[c].paymentId,
                     transactionHash |-> calls[c].transactionHash,
                     expectedAmount |-> challenge.amount,
                     expectedRecipient |-> challenge.recipient,
                     expectedCurrency |-> challenge.currency]

VerifyRequestFromStoredChallengeWitness ==
  \E c1, c2 \in Calls :
    /\ calls[c1].sent /\ calls[c2].sent
    /\ SamePayment(c1, c2)
    /\ calls[c1].transactionHash # calls[c2].transactionHash
    /\ issued[calls[c1].paymentId].scenario = "DISPUTE_BOND"

\* C12: no verifyPayment call made after the deadline of the challenge it
\* names (issue time plus one hour) returns verified:true, swept or not.
DeadlineEnforcedOnVerify ==
  \A c \in Calls :
    (ReturnedVerified(c) /\ calls[c].found)
    => ~Expired(calls[c].pendingPayment, UnixSeconds(calls[c].calledAt))

\* the process handler of call c has sent its answer
Answered(c) == http[c].status # 0

\* C13: once a request endpoint has issued a challenge and the facilitator
\* has confirmed verified:true for it, the matching process endpoint answers
\* 200 with success:true and the payment verification, the id is in neither
\* the pending store nor the session map, and GET /payment/:id reports
\* not_found.
PaidFlowDelivers ==
  \A c \in Calls :
    (/\ Finished(calls[c])
     /\ calls[c].answer = "true"
     /\ issued[calls[c].paymentId].scenario = RouteScenario(http[c].route))
    => /\ http[c].status = 200
       /\ http[c].success
       /\ http[c].paymentVerification.verified
       /\ calls[c].paymentId \notin DOMAIN pendingPayments
       /\ calls[c].paymentId \notin DOMAIN paymentSessions
       /\ PaymentStatus(pendingPayments, paymentSessions,
                        calls[c].paymentId).status = "not_found"

\* C14: a dispute request whose disputeReason is missing is answered 400
\* with an error that names disputeReason (and nothing else when the other
\* required fields are set); it issues no challenge and leaves the pending
\* store and the session map as they were.
DisputeReasonRequired ==
  [][\A body \in EndpointBodies :
       (requestPayment("dispute", body) /\ Falsy(body, "disputeReason"))
       => /\ reply'.status = 400
          /\ reply'.error = "Missing required fields"
          /\ \E i \in 1..Len(reply'.fields) :
                reply'.fields[i] = "disputeReason"
          /\ (/\ ~Falsy(body, "userId") /\ ~Falsy(body, "projectAddress")
              /\ ~Falsy(body, "milestoneId"))
               => reply'.fields = <<"disputeReason">>
          /\ UNCHANGED <<pendingPayments, issued, paymentSessions>>]_vars

DisputeReasonRequiredWitness ==
  /\ reply.route = "dispute" /\ reply.step = "request"
  /\ reply.status = 400
  /\ reply.fields = <<"disputeReason">>
  /\ "disputeReason" \in DOMAIN reply.body
  /\ pendingPayments # <<>>
  /\ paymentSessions # <<>>

OpReturned(o) == ops[o].pc = "returned"
\* the provider's wait for the operation has thrown
WaitThrew(o) == ops[o].report.settled = "rejected"
\* the provider's wait has reported the operation complete
ReportedComplete(o) ==
  ops[o].report.settled = "resolved" /\ ops[o].report.status = "complete"

\* C16: a wallet operation that waits for the provider eventually returns,
\* also when the provider never reports a terminal state.
WaitIsBounded ==
  \A o \in Ops : (ops[o].pc = "awaitWait") ~> OpReturned(o)

\* C17: an exception the provider raises while the wallet waits for a user
\* operation ends in a returned result with the operation's hash, status
\* failed and that exception as error; a sender never throws once it has
\* submitted.
WaitExceptionCaught ==
  \A o \in Ops :
    /\ ops[o].pc = "thrown" => ops[o].submitted = 0
    /\ (WaitThrew(o) /\ ops[o].pc # "awaitWait")
         => /\ OpReturned(o)
            /\ ops[o].userOpHash # ""
            /\ ops[o].result =
                 [userOpHash |-> ops[o].userOpHash, transactionHash |-> "",
                  status |-> "failed", error |-> ops[o].report.error]

WaitExceptionCaughtWitness ==
  \E o \in Ops :
    WaitThrew(o) /\ OpReturned(o) /\ ops[o].method = "transferTokens"

\* C18: every result a sender returns has status complete or failed, never
\* pending; it is complete exactly when the provider reported the operation
\* complete, a complete result carries the provider's transaction hash and
\* a failed one carries an error.
ResultsAreTerminal ==
  \A o \in Ops :
    OpReturned(o)
    => /\ ops[o].result.status \in {"complete", "failed"}
       /\ ops[o].result.status = "complete" <=> ReportedComplete(o)
       /\ ops[o].result.status = "complete"
            => /\ ops[o].result.transactionHash # ""
               /\ ops[o].result.transactionHash =
                    ops[o].report.transactionHash
       /\ ops[o].result.status = "failed" => ops[o].result.error # ""

ResultsAreTerminalWitness ==
  \E o \in Ops :
    /\ OpReturned(o) /\ ops[o].method = "createProject"
    /\ ops[o].result.status = "complete"

\* C19: one call of a sender submits at most one user operation and waits at
\* most once; a rejected submission returns a failed result without a wait;
\* and a call that has returned or thrown does nothing more.
NoAutomaticRetry ==
  /\ [](\A o \in Ops :
          /\ ops[o].submitted <= 1
          /\ ops[o].waited <= 1
          /\ ops[o].send = "rejected"
               => /\ OpReturned(o)
                  /\ ops[o].result.status = "failed"
                  /\ ops[o].waited = 0
                  /\ ops[o].report = NoReport)
  /\ [][\A o \in Ops :
          ops[o].pc \in {"returned", "thrown"} => ops'[o] = ops[o]]_vars

NoAutomaticRetryWitness ==
  \E o \in Ops :
    /\ ops[o].send = "rejected" /\ OpReturned(o)
    /\ ops[o].method = "sendNativeTokens"

\* the input of a wallet call is well-formed: every address is one and
\* every amount is a positive number
InputIsValid(method, args) ==
  CASE method = "sendNativeTokens" -> IsAddress(args.to) /\ args.amount > 0
    [] method = "transferTokens" ->
         /\ IsAddress(args.tokenAddress) /\ IsAddress(args.to)
         /\ CanParseUnits(args.amount) /\ parseUnits(args.amount) > 0
    [] method = "createProject" ->
         /\ IsAddress(args.contractAddress) /\ IsAddress(args.client)
         /\ IsAddress(args.freelancer)
         /\ \A i \in 1..Len(args.milestonePayments) :
              /\ CanParseUnits(args.milestonePayments[i])
              /\ parseUnits(args.milestonePayments[i]) > 0
    [] method = "approveMilestone" -> IsAddress(args.projectAddress)
    [] OTHER -> TRUE

\* C20: transferTokens, sendNativeTokens, createProject and approveMilestone
\* never invoke sendUserOperation for a malformed address or a non-positive
\* amount.
ValidatedBeforeSubmission ==
  \A o \in Ops :
    ops[o].submitted > 0 => InputIsValid(ops[o].method, ops[o].args)

WalletCallReturned == walletCall.pc = "returned"
RefreshRan == walletCall.chainReads > 0

\* C21: sendNativeTokens, transferTokens, callContract, refreshWalletState
\* and getOrCreateWalletState never throw, whether or not initialize has
\* completed: each ends with a returned value.
NoFaultCrossesExecutor ==
  /\ walletCall.pc # "thrown"
  /\ \A o \in Ops :
       ops[o].method \in {"sendNativeTokens", "transferTokens", "callContract"}
       => ops[o].pc # "thrown"

\* C22: a refresh whose native balance read succeeded runs to its end
\* whatever the token reads and the history fetch did: a failed token read
\* leaves no token entry, a failed history fetch leaves an empty history,
\* the native balance and lastUpdated are set, and the state is handed to
\* the storage provider, which holds it when the write succeeded.
PartialFailureRefresh ==
  (WalletCallReturned /\ RefreshRan /\ walletCall.reads.native = "ok")
  => /\ walletCall.result.tokenBalances =
          (IF walletCall.reads.token = "ok"
           THEN <<ChainTokenBalance>> ELSE <<>>)
     /\ walletCall.result.transactions =
          (IF walletCall.reads.history = "ok"
           THEN <<ChainTransaction>> ELSE <<>>)
     /\ walletCall.result.nativeBalance = ChainNativeBalance
     /\ walletCall.result.lastUpdated = walletCall.settledAt
     /\ walletCall.writes = 1
     /\ walletCall.reads.save = "ok"
          => storage[walletCall.userId] = walletCall.result

PartialFailureRefreshWitness ==
  /\ WalletCallReturned /\ RefreshRan
  /\ walletCall.reads = [native |-> "ok", token |-> "decimalsFailed",
                         history |-> "failed", save |-> "ok"]
  /\ storage[walletCall.userId] = walletCall.result
  /\ walletCall.result.tokenBalances = <<>>

\* C23: getOrCreateWalletState on an initialized service returns the stored
\* state as it is, with no chain read and no write, when one is stored and
\* is at most five minutes old, and starts a refresh otherwise; a refresh
\* that was saved leaves lastUpdated at the time the refresh ended.
StalenessRule ==
  /\ [][(/\ NoWalletCallRunning /\ smartAccount
          /\ walletCall' # walletCall
          /\ walletCall'.entry = "getOrCreateWalletState")
        => LET stored == storage[walletCall'.userId]
           IN IF stored # NoState /\ now - stored.lastUpdated <= 300000
              THEN /\ walletCall'.pc = "returned"
                   /\ walletCall'.result = stored
                   /\ walletCall'.chainReads = 0
                   /\ walletCall'.writes = 0
                   /\ storage' = storage
              ELSE walletCall'.pc = "awaitReads"]_vars
  /\ []((/\ WalletCallReturned /\ RefreshRan
         /\ walletCall.reads.native = "ok" /\ walletCall.reads.save = "ok")
        => storage[walletCall.userId].lastUpdated = walletCall.settledAt)

StalenessRuleWitness ==
  /\ WalletCallReturned /\ ~RefreshRan
  /\ walletCall.entry = "getOrCreateWalletState"
  /\ walletCall.existingData # NoState
  /\ walletCall.calledAt - walletCall.existingData.lastUpdated = 300000
  /\ walletCall.result = walletCall.existingData

\* the number a decimal text denotes, times 10^scale
ScaledValue(text, scale) ==
  LET magnitude ==
        DigitsValue(text.integer) * Pow10(scale)
          + DigitsValue(text.fraction) * Pow10(scale - Len(text.fraction))
  IN IF text.negative THEN 0 - magnitude ELSE magnitude

SameValue(a, b) ==
  LET scale == IF Len(a.fraction) > Len(b.fraction)
               THEN Len(a.fraction) ELSE Len(b.fraction)
  IN ScaledValue(a, scale) = ScaledValue(b, scale)

TenAndAHalf == [negative |-> FALSE, integer |-> <<1, 0>>, fraction |-> <<5>>]

\* C24: an entered amount with at most d digits after the point, encoded by
\* parseUnits for a token of d decimals and formatted back by formatUnits
\* with the same d, denotes the number that was entered; 10.5 with six
\* decimals encodes to 10500000.
AmountRoundTrip ==
  /\ (/\ conversion.stage = "formatted"
      /\ Len(conversion.amount.fraction) <= conversion.decimals)
     => SameValue(conversion.formatted, conversion.amount)
  /\ (/\ conversion.stage \in {"encoded", "formatted"}
      /\ conversion.amount = TenAndAHalf /\ conversion.decimals = 6)
     => conversion.raw = 10500000

AmountRoundTripWitness ==
  /\ conversion.stage = "formatted"
  /\ conversion.amount = TenAndAHalf /\ conversion.decimals = 6
  /\ conversion.raw = 10500000
  /\ conversion.formatted = TenAndAHalf

\* C25: a tool invocation never throws: when the submission is rejected,
\* the wait is rejected or the operation ends in a status other than
\* complete, the tool function returns a failure result.
ToolFailureIsAValue ==
  \A t \in ToolCalls : toolCalls[t].pc # "thrown"

\* C26: under a clock that advances and a cleanup timer that keeps running,
\* every payment id in the gateway's pending store is eventually absent
\* from it, and every endpoint session is eventually absent from the
\* session map.
EveryChallengeDestroyed ==
  \A id \in 1..MaxIssued :
    /\ (id \in DOMAIN pendingPayments) ~> (id \notin DOMAIN pendingPayments)
    /\ (id \in DOMAIN paymentSessions) ~> (id \notin DOMAIN paymentSessions)

EveryChallengeDestroyedWitness ==
  \E id \in 1..Len(issued) :
    /\ id \notin DOMAIN pendingPayments
    /\ id \notin DOMAIN paymentSessions
    /\ \E sweep \in sweeps : id \in sweep.removed
    /\ \A c \in Calls : calls[c].paymentId # id

\* C27: the stored challenge of an id changes only when that id is issued
\* or when a verifyPayment call for that same id redeems it; an issue adds
\* exactly one entry and leaves every other entry as it was; and what a
\* verifyPayment call returns is decided by the challenge of its own id and
\* the facilitator's answer to its own request.
IndependentAcrossIds ==
  /\ [][\A B \in 1..MaxIssued :
          MapGet(pendingPayments', B) # MapGet(pendingPayments, B)
          => \/ /\ B \notin DOMAIN pendingPayments
                /\ Len(issued') = B /\ Len(issued) = B - 1
                /\ DOMAIN pendingPayments' = DOMAIN pendingPayments \cup {B}
                /\ \A k \in DOMAIN pendingPayments :
                     pendingPayments'[k] = pendingPayments[k]
             \/ /\ B \notin DOMAIN pendingPayments'
                /\ DOMAIN pendingPayments' = DOMAIN pendingPayments \ {B}
                /\ \A k \in DOMAIN pendingPayments' :
                     pendingPayments'[k] = pendingPayments[k]
                /\ \E c \in Calls :
                     /\ calls[c].paymentId = B
                     /\ calls[c].pc = "awaitJson"
                     /\ calls'[c].verification.verified
                     /\ \A d \in Calls \ {c} : calls'[d] = calls[d]]_vars
  /\ [][issued' # issued
        => /\ Cardinality(DOMAIN pendingPayments')
               = Cardinality(DOMAIN pendingPayments) + 1
           /\ \A k \in DOMAIN pendingPayments :
                pendingPayments'[k] = pendingPayments[k]]_vars
  /\ [](\A c \in Calls :
          calls[c].pc = "returned"
          => /\ calls[c].result.paymentId = calls[c].paymentId
             /\ calls[c].result.verified
                  = (calls[c].found /\ calls[c].answer = "true")
             /\ calls[c].found
                  => calls[c].pendingPayment
                       = issued[calls[c].paymentId].payment)

IndependentAcrossIdsWitness ==
  /\ Len(issued) >= 2
  /\ 1 \notin DOMAIN pendingPayments
  /\ 2 \in DOMAIN pendingPayments
  /\ pendingPayments[2] = issued[2].payment
  /\ \E c, d \in Calls :
       /\ calls[c].paymentId = 1 /\ calls[c].pc = "returned"
       /\ calls[c].result.verified
       /\ calls[d].paymentId = 2 /\ calls[d].pc = "awaitJson"
       /\ calls[d].calledAt = calls[c].calledAt

\* C28: the loop handles one message at a time: a message is taken from the
\* stream only when the handling of every earlier message has returned, so
\* the replies are sent in the order in which their messages arrived.
SerialDispatch ==
  /\ \A n, m \in Messages :
       n < m /\ handlings[m].pc # "idle" => handlings[n].pc = "done"
  /\ \A i, j \in DOMAIN sent : i < j => sent[i].message <= sent[j].message

SerialDispatchWitness ==
  /\ Len(stream) >= 2
  /\ stream[1].conversationId = stream[2].conversationId
  /\ handlings[1].pc = "send"
  /\ handlings[2].pc = "idle"

\* the reply is an error text followed by the help text
IsErrorWithHelp(text) ==
  /\ Len(text) = 3
  /\ text[1] = "Sorry, I encountered an error: "
  /\ text[3] = HELP_MESSAGE

\* C29: every text message from another user whose handling has returned
\* after a failure of agent initialisation, agent invocation, command
\* parsing or conversation lookup has an error reply with the help text
\* in the log of the messages sent to its conversation.
FailureIsAnsweredWithHelp ==
  \A n \in Messages :
    /\ handlings[n].pc = "done"
    /\ handlings[n].failure \in {"init", "invoke", "parse", "lookup"}
    /\ stream[n].contentType = "text"
    /\ toLowerCase(stream[n].senderInboxId) # toLowerCase(ClientInboxId)
    => \E k \in DOMAIN sent :
         /\ sent[k].message = n
         /\ sent[k].conversationId = stream[n].conversationId
         /\ IsErrorWithHelp(sent[k].text)

\* C30: a message whose sender inbox id equals the agent's own up to case
\* never starts an agent initialisation or an agent invocation and never
\* has a reply in the log of sent messages.
NeverRepliesToItself ==
  \A n \in Messages :
    /\ n <= Len(stream)
    /\ toLowerCase(stream[n].senderInboxId) = toLowerCase(ClientInboxId)
    => /\ ~handlings[n].initialised
       /\ ~handlings[n].invoked
       /\ handlings[n].pc \in {"idle", "done"}
       /\ \A k \in DOMAIN sent : sent[k].message # n

NeverRepliesToItselfWitness ==
  /\ Len(stream) >= 2
  /\ stream[1].senderInboxId # ClientInboxId
  /\ toLowerCase(stream[1].senderInboxId) = toLowerCase(ClientInboxId)
  /\ handlings[1].pc = "done"
  /\ handlings[2].pc = "done"
  /\ \E k \in DOMAIN sent : sent[k].message = 2

\* C31: approveMilestone submits approveAndPayMilestone only when the user
\* who made the request is the project's client, and a request of any other
\* user returns the not-authorised error with no transaction submitted.
ApprovalOnlyByClient ==
  \A t \in ToolCalls :
    toolCalls[t].name = "approveMilestone" /\ toolCalls[t].client # ""
    => IF toLowerCase(toolCalls[t].requester)
            = toLowerCase(toolCalls[t].client)
         THEN toolCalls[t].submitted
         ELSE /\ ~toolCalls[t].submitted
              /\ toolCalls[t].result.message = NotAuthorized

\* C32: every challenge still in the gateway's pending store has its
\* endpoint session in the session map, and no process request whose
\* verifyPayment call returned verified:true is answered 404.
ConsumedPaymentDelivers ==
  /\ \A id \in DOMAIN pendingPayments : id \in DOMAIN paymentSessions
  /\ \A c \in Calls :
       calls[c].pc = "returned" /\ calls[c].result.verified
       => http[c].status # 404

\* C33: a process request answered with success names a payment id whose
\* challenge was issued for the scenario of the route that answered.
ScenarioBinding ==
  \A c \in Calls :
    http[c].status = 200
    => issued[calls[c].paymentId].scenario = RouteScenario(http[c].route)

\* C34: a verifyPayment call that redeems its challenge or returns
\* verified:true carries the amount of the stored challenge: an answer of
\* verified:true with another amount redeems nothing.
AmountMatchesChallenge ==
  \A c \in Calls :
    /\ calls[c].pc \in {"awaitSettle", "returned"}
    /\ calls[c].verification.verified
    => calls[c].verification.amount = calls[c].pendingPayment.amount

\* C35: with a facilitator that judges a reference by amount, recipient
\* and currency alone, the verifyPayment calls that returned verified:true
\* for one transaction hash all name the same payment id.
NoReferenceReplay ==
  \A c1, c2 \in Calls :
    /\ ReturnedVerified(c1) /\ ReturnedVerified(c2)
    /\ calls[c1].transactionHash = calls[c2].transactionHash
    => SamePayment(c1, c2)

\* a required field is supplied: present in the body, and not the empty
\* text; any number counts for milestoneId
Supplied(body, field) ==
  /\ field \in DOMAIN body
  /\ IF field = "milestoneId" THEN TRUE ELSE body[field] # ""

\* C36: a request that supplies every required field of its route,
\* milestoneId 0 included, is answered 402 with its challenge stored; only
\* a request that lacks a required field is answered 400.
RejectedOnlyWhenAbsent ==
  reply.route \in Routes /\ reply.step = "request"
  => LET fields == RequiredFields(reply.route)
         complete ==
           \A i \in DOMAIN fields : Supplied(reply.body, fields[i])
     IN /\ reply.status = 400 => ~complete
        /\ complete => /\ reply.status = 402
                       /\ reply.payment.id \in DOMAIN pendingPayments

====
